---- MODULE Spec2Model ----
(***************************************************************************)
(* Verification model of metmuseum-mcp: the server-side RateLimiter and    *)
(* the calls MetMuseumApiClient makes through it, and the Met Explorer     *)
(* widget's search / hydration / detail orchestration.                     *)
(*                                                                         *)
(* Execution model: a JavaScript event loop.  Synchronous code and the     *)
(* promise reactions (microtasks) it queues take no time; the clock moves  *)
(* and timers, incoming requests and network responses (macrotasks) are    *)
(* handled only when the microtask queue is empty.                         *)
(***************************************************************************)
EXTENDS Integers, Sequences, FiniteSets, TLC

(***************************************************************************)
(* Program constants                                                       *)
(***************************************************************************)
\* new RateLimiter(80)
MaxRequestsPerSecond == 80

\* the literal 1000 of waitIfNeeded: the length of the counting window in ms
WindowMs == 1000

\* DEFAULT_SEARCH_PAGE_SIZE
DefaultPageSize == 12

\* the concurrency hydrateObjects passes to runWithConcurrency
Concurrency == 4

(***************************************************************************)
(* Bounds of the model                                                     *)
(***************************************************************************)
\* number of loadSearchPage calls in one behaviour of the explorer
MaxSearches == 2

\* number of detail-view tokens issued in one behaviour
MaxDetailsToken == 2

\* number of detail-view tokens issued in one behaviour of SpecDetails
MaxDetailLoads == 3

\* number of addSelectedObjectToContext calls in one behaviour
MaxAdds == 2

\* longest identifier list of a page when searches overlap
MaxOverlapIds == 2

\* longest identifier list of a page when one search is hydrated alone
MaxIds == 5

\* number of loadSearchPage calls, and longest identifier list of a page,
\* when every behaviour of the host is explored
MaxPublishes == 3
MaxPublishIds == 2

\* number of tool executions in one behaviour
MaxInvocations == 2

\* longest identifier list, largest pageSize and largest page of a
\* search-museum-objects request
MaxListLen == 5
MaxPageSize == 3
MaxPage == 4

\* total number of RateLimiter.fetch calls in one behaviour
MaxCalls == 165

\* number of synchronous bursts of calls in one behaviour
MaxBursts == 3

\* the clock advances by TickMs or by WindowMs
TickMs == 400

\* no idle clock step starts at or after MaxTime
MaxTime == 1400

VARIABLES
  now,                 \* Date.now(), in ms since the limiter was constructed
  requestsThisSecond,  \* RateLimiter.requestsThisSecond
  lastRequestTime,     \* RateLimiter.lastRequestTime
  pending,             \* the promises chained by acquireSlot, in call order
  wakeAt,              \* deadline of the setTimeout of a suspended waitIfNeeded
  jobs,                \* the microtask queue: promise reactions, FIFO
  outbound,            \* calls whose fetch(url, options) has been issued
  nBursts,             \* number of bursts of calls made so far
  grantedAt,           \* history: time |-> number of slots granted at it
  state,               \* the explorer's AppState
  searches,            \* the loadSearchPage calls, in call order, with their locals
  details,             \* the loadObjectDetails call in flight, if any
  startup,             \* the init() call, and the launch deliveries made
  adding,              \* the addSelectedObjectToContext call, with its locals
  payloads,            \* two results contexts and what is built from each
  invocations,         \* the server's tool executions, with the client call of each
  paging               \* a search-museum-objects execution after searchObjects returned

limiterVars == <<now, requestsThisSecond, lastRequestTime, pending, wakeAt,
                 jobs, outbound, nBursts, grantedAt>>

contextVars == <<adding, payloads>>

explorerVars == <<state, searches, details, startup, contextVars>>

clientVars == <<invocations, paging>>

vars == <<limiterVars, explorerVars, clientVars>>

(***************************************************************************)
(* RateLimiter                                                             *)
(***************************************************************************)
nCalls == Len(pending)

\* The record of one more slot granted at the current time.
Granted(g) ==
  IF now \in DOMAIN g THEN [g EXCEPT ![now] = @ + 1] ELSE g @@ (now :> 1)

\* Line 19: pending = pending.then(() => waitIfNeeded()).  A reaction on a
\* promise that is already resolved (or on the initial Promise.resolve())
\* is queued at once; a reaction on an unresolved promise waits for it.
PredecessorResolved(p) == p = <<>> \/ p[Len(p)] = "resolved"

Chained(k) == [i \in 1..k |-> "chained"]

\* Lines 12-13: fetch(url, options) is issued only after the await of
\* acquireSlot() has resumed, so making the call issues nothing yet.
IssuedWithoutAwait(k) == (nCalls + 1)..(nCalls + k)

IssuedBeforeSlot(k) == {}

\* k calls of RateLimiter.fetch made by one synchronous piece of code: each
\* runs acquireSlot (line 12) and suspends at its await.
RateLimiterFetch(k) ==
  /\ jobs = <<>>
  /\ nCalls + k <= MaxCalls
  /\ nBursts < MaxBursts
  /\ nBursts' = nBursts + 1
  /\ pending' = pending \o Chained(k)
  /\ jobs' = IF PredecessorResolved(pending)
               THEN <<[kind |-> "waitIfNeeded", call |-> nCalls + 1]>>
               ELSE <<>>
  /\ outbound' = outbound \cup IssuedBeforeSlot(k)
  /\ UNCHANGED <<now, requestsThisSecond, lastRequestTime, wakeAt, grantedAt>>
  /\ UNCHANGED <<explorerVars, clientVars>>

\* The reactions registered on the promise of call c, in registration
\* order: the caller's own await (line 12), then the next acquireSlot's
\* then-callback (line 19) when there is one.
ReactionsCallerOnly(c) == <<[kind |-> "fetch", call |-> c]>>

Reactions(c) ==
  <<[kind |-> "fetch", call |-> c]>>
    \o (IF c + 1 <= nCalls
          THEN <<[kind |-> "waitIfNeeded", call |-> c + 1]>>
          ELSE <<>>)

\* What the chain does while the body of call c is suspended on its timer:
\* nothing, the promise returned by waitIfNeeded is still unresolved.
WhileSuspendedDetached(c) ==
  IF c + 1 <= nCalls THEN <<[kind |-> "waitIfNeeded", call |-> c + 1]>> ELSE <<>>

WhileSuspended(c) == <<>>

\* Line 33: requestsThisSecond >= maxRequestsPerSecond
LimitReachedOffByOne(count) == count > MaxRequestsPerSecond

LimitReached(count) == count >= MaxRequestsPerSecond

\* Lines 23-46 up to the await of line 37 (or to the end when the body
\* does not wait).
WaitIfNeeded(c) ==
  LET reset == now - lastRequestTime >= WindowMs
      count == IF reset THEN 0 ELSE requestsThisSecond
      last  == IF reset THEN now ELSE lastRequestTime
      timeToWait == WindowMs - (now - last)
  IN IF LimitReached(count) /\ timeToWait > 0
       THEN /\ pending' = [pending EXCEPT ![c] = "sleeping"]
            /\ wakeAt' = now + timeToWait
            /\ requestsThisSecond' = count
            /\ lastRequestTime' = last
            /\ jobs' = Tail(jobs) \o WhileSuspended(c)
            /\ UNCHANGED <<grantedAt>>
       ELSE /\ pending' = [pending EXCEPT ![c] = "resolved"]
            /\ requestsThisSecond' =
                 (IF LimitReached(count) THEN 0 ELSE count) + 1
            /\ lastRequestTime' =
                 IF LimitReached(count) THEN now ELSE last
            /\ grantedAt' = Granted(grantedAt)
            /\ jobs' = Tail(jobs) \o Reactions(c)
            /\ UNCHANGED <<wakeAt>>

\* One microtask.
RunJob ==
  /\ jobs # <<>>
  /\ UNCHANGED <<explorerVars, clientVars>>
  /\ LET job == Head(jobs)
     IN \/ /\ job.kind = "waitIfNeeded"
           /\ pending[job.call] = "chained"
           /\ WaitIfNeeded(job.call)
           /\ UNCHANGED <<now, outbound, nBursts>>
        \/ /\ job.kind = "fetch"
           /\ outbound' = outbound \cup {job.call}
           /\ jobs' = Tail(jobs)
           /\ UNCHANGED <<now, requestsThisSecond, lastRequestTime, pending,
                          wakeAt, nBursts, grantedAt>>

\* Lines 39-45: the timer of line 37 fires and the body of call c resumes.
TimerFires ==
  /\ jobs = <<>>
  /\ UNCHANGED <<explorerVars, clientVars>>
  /\ \E c \in 1..nCalls :
       /\ pending[c] = "sleeping"
       /\ now >= wakeAt
       /\ pending' = [pending EXCEPT ![c] = "resolved"]
       /\ requestsThisSecond' = 0 + 1
       /\ lastRequestTime' = now
       /\ grantedAt' = Granted(grantedAt)
       /\ jobs' = Reactions(c)
       /\ UNCHANGED <<now, wakeAt, outbound, nBursts>>

Sleeping == {c \in 1..nCalls : pending[c] = "sleeping"}

\* Time passes while the event loop is idle.  A timer that is due fires
\* before the clock moves again.
Tick ==
  /\ jobs = <<>>
  /\ UNCHANGED <<explorerVars, clientVars>>
  /\ IF Sleeping # {} THEN now < wakeAt ELSE now < MaxTime
  /\ \E d \in {TickMs, WindowMs} : now' = now + d
  /\ UNCHANGED <<requestsThisSecond, lastRequestTime, pending, wakeAt, jobs,
                 outbound, nBursts, grantedAt>>

(***************************************************************************)
(* MetMuseumApiClient: every network call goes through the one limiter     *)
(***************************************************************************)
Endpoints == {"departments", "search", "object"}

BurstSizes == {1, MaxRequestsPerSecond}

\* fetchJson (listDepartments, searchObjects, getObject), lines 221-227
FetchJson == \E e \in Endpoints, k \in BurstSizes : RateLimiterFetch(k)

\* getImageAsBase64, lines 158-164
GetImageAsBase64 == \E k \in BurstSizes : RateLimiterFetch(k)

(***************************************************************************)
(* MetMuseumApiClient: outcome of a call, and the tools that make the calls *)
(***************************************************************************)
\* A JavaScript error: its name, its message (a sequence of text fragments),
\* and for a MetMuseumApiError the status (0: undefined) and isUserFriendly.
Error(name, message) ==
  [name |-> name, message |-> message, status |-> 0, isUserFriendly |-> FALSE]

\* new MetMuseumApiError(message, status, isUserFriendly), lines 51-62
MetMuseumApiError(message, status, isUserFriendly) ==
  [name |-> "MetMuseumApiError", message |-> message, status |-> status,
   isUserFriendly |-> isUserFriendly]

\* the validation detail zod's safeParse reports with a failure
ValidationIssues == <<"invalid_type at objectIDs">>

\* createUnexpectedResponseError, lines 43-49
createUnexpectedResponseErrorWithIssues(endpointName) ==
  MetMuseumApiError(<<"unexpected response", endpointName>> \o ValidationIssues,
                    0, TRUE)

createUnexpectedResponseError(endpointName) ==
  MetMuseumApiError(<<"unexpected response", endpointName>>, 0, TRUE)

\* the reason of AbortSignal.timeout(requestTimeoutMs)
TimeoutError == Error("TimeoutError", <<"The operation was aborted due to timeout">>)

\* what fetch(url, options) can reject with besides the timeout
TransportErrors ==
  { Error("TypeError", <<"fetch failed">>),
    Error("TypeError", <<"Invalid URL">>),
    Error("AbortError", <<"This operation was aborted">>),
    Error("Error", <<"socket hang up">>) }

\* error.message.includes('fetch')
MentionsFetch(message) ==
  \E i \in 1..Len(message) : message[i] \in {"fetch failed"}

Methods == {"listDepartments", "searchObjects", "getObject", "getImageAsBase64"}

\* the endpointName each method passes on
EndpointName(method) ==
  CASE method = "listDepartments" -> "departments"
    [] method = "searchObjects" -> "search"
    [] method = "getObject" -> "object"
    [] OTHER -> "image"

\* the catch of fetchJson, lines 228-245, and of getImageAsBase64, lines
\* 165-182: what is thrown for a rejection of RateLimiter.fetch
RethrowEverything(method, error) == error

CatchOfFetch(method, error) ==
  IF error.name \in {"TimeoutError", "AbortError"}
    THEN MetMuseumApiError(<<"taking too long", EndpointName(method)>>, 0, TRUE)
    ELSE IF error.name = "TypeError" /\ MentionsFetch(error.message)
      THEN MetMuseumApiError(<<"unreachable", EndpointName(method)>>, 0, TRUE)
      ELSE error

\* response.ok
Ok(status) == status >= 200 /\ status <= 299

\* lines 247-262 and 184-195: the error thrown for a response that is not ok
HttpError(method, status) ==
  MetMuseumApiError(
    << CASE status = 404 -> "not found"
         [] status = 429 -> "too many requests"
         [] status >= 500 -> "experiencing issues"
         [] status >= 400 /\ method # "getImageAsBase64" -> "rejected the request"
         [] OTHER -> "returned an error",
       EndpointName(method) >>,
    status, TRUE)

Statuses == {200, 304, 400, 404, 429, 503}

\* what reading the body of an ok response gives: JSON of the expected
\* shape, JSON of another shape, no JSON, or a broken connection
Bodies == {"valid", "mismatch", "invalidJson", "broken"}


Tools == {"list-departments", "search-museum-objects", "get-museum-object"}

\* the client method a tool calls first
MethodOf(tool) ==
  CASE tool = "list-departments" -> "listDepartments"
    [] tool = "search-museum-objects" -> "searchObjects"
    [] OTHER -> "getObject"

\* `${error}`: the name and the message of the error
ErrorToString(error) == <<error.name>> \o error.message

\* The text of the tool result for an error caught by the tool:
\* GetObjectTool lines 79-97, SearchMuseumObjectsTool lines 137-147,
\* ListDepartmentsTool lines 29-35.
ToolErrorText(tool, error) ==
  CASE tool = "get-museum-object" ->
         IF error.name = "MetMuseumApiError"
           THEN IF error.isUserFriendly THEN error.message
                ELSE IF error.status = 404
                  THEN <<"Museum object id was not found.">>
                  ELSE <<"Error getting museum object id:">> \o error.message
           ELSE <<"Error getting museum object id:">> \o ErrorToString(error)
    [] tool = "search-museum-objects" ->
         IF error.name = "MetMuseumApiError" /\ error.isUserFriendly
           THEN error.message
           ELSE <<"Error searching museum objects:">> \o ErrorToString(error)
    [] OTHER -> <<"Error listing departments:">> \o ErrorToString(error)

\* A tool execution suspended in a client call: the method running, where
\* that call is (awaiting its slot, the response, the body), and whether the
\* AbortSignal.timeout of that call has fired.  `thrown` and `body` are
\* history: the errors the client has thrown to the tool, each with the
\* await the method was suspended at, and what the last body read gave.
NewInvocation(tool, returnImage) ==
  [ tool |-> tool,
    returnImage |-> returnImage,
    method |-> MethodOf(tool),
    pc |-> "slot",
    aborted |-> FALSE,
    body |-> "",
    thrown |-> <<>>,
    result |-> [isError |-> FALSE, text |-> <<>>] ]

\* The running client method throws `error` to the tool.  GetObjectTool
\* swallows a failure of getImageAsBase64 (lines 41-53) and adds a note.
MethodThrows(inv, error) ==
  LET entry == [method |-> inv.method, error |-> error,
                aborted |-> inv.aborted, at |-> inv.pc]
  IN IF inv.method = "getImageAsBase64"
       THEN [inv EXCEPT !.pc = "done",
                        !.thrown = Append(@, entry),
                        !.result = [isError |-> FALSE,
                                    text |-> <<"object text",
                                               "Note: Image could not be loaded.">>]]
       ELSE [inv EXCEPT !.pc = "done",
                        !.thrown = Append(@, entry),
                        !.result = [isError |-> TRUE,
                                    text |-> ToolErrorText(inv.tool, error)]]

\* The running client method returns its value to the tool.
MethodReturns(inv) ==
  IF inv.method = "getObject" /\ inv.returnImage
    THEN [inv EXCEPT !.method = "getImageAsBase64", !.pc = "slot",
                     !.aborted = FALSE]
    ELSE [inv EXCEPT !.pc = "done",
                     !.result = [isError |-> FALSE, text |-> <<"result text">>]]

Invocation(i, inv) ==
  /\ invocations' = [invocations EXCEPT ![i] = inv]
  /\ UNCHANGED <<limiterVars, explorerVars, paging>>

\* a tool is executed: execute() runs up to the await of acquireSlot in
\* RateLimiter.fetch, the AbortSignal.timeout having been created
Execute(tool, returnImage) ==
  /\ Len(invocations) < MaxInvocations
  /\ returnImage => tool = "get-museum-object"
  /\ invocations' = Append(invocations, NewInvocation(tool, returnImage))
  /\ UNCHANGED <<limiterVars, explorerVars, paging>>

\* RateLimiter.fetch lines 12-13: the slot is acquired and fetch(url,
\* options) is called; with a signal that is already aborted it rejects
\* with the signal's reason
SlotGranted(i) ==
  /\ invocations[i].pc = "slot"
  /\ LET inv == invocations[i]
     IN Invocation(i, IF inv.aborted
                        THEN MethodThrows(inv, CatchOfFetch(inv.method, TimeoutError))
                        ELSE [inv EXCEPT !.pc = "headers"])

\* the timeout of the call's AbortSignal expires: a pending fetch rejects
\* with TimeoutError inside the try; a pending body read (response.json(),
\* line 263, response.arrayBuffer(), line 201) rejects with it outside
SignalTimesOut(i) ==
  /\ invocations[i].pc \in {"slot", "headers", "body"}
  /\ ~invocations[i].aborted
  /\ LET inv == [invocations[i] EXCEPT !.aborted = TRUE]
     IN Invocation(i, CASE inv.pc = "slot" -> inv
                        [] inv.pc = "headers" ->
                             MethodThrows(inv, CatchOfFetch(inv.method, TimeoutError))
                        [] OTHER -> MethodThrows(inv, TimeoutError))

\* fetch rejects for another reason
FetchRejects(i, error) ==
  /\ invocations[i].pc = "headers"
  /\ Invocation(i, MethodThrows(invocations[i],
                                 CatchOfFetch(invocations[i].method, error)))

\* the response headers arrive
HeadersArrive(i, status) ==
  /\ invocations[i].pc = "headers"
  /\ LET inv == invocations[i]
     IN Invocation(i, IF Ok(status)
                        THEN [inv EXCEPT !.pc = "body"]
                        ELSE MethodThrows(inv, HttpError(inv.method, status)))

\* the body read settles: response.json() and the schema's safeParse
\* (fetchAndParse, getObject), or response.arrayBuffer()
BodyArrives(i, body) ==
  /\ invocations[i].pc = "body"
  /\ LET inv == [invocations[i] EXCEPT !.body = body]
         json == inv.method # "getImageAsBase64"
     IN Invocation(i,
          CASE body = "broken" ->
                 MethodThrows(inv, Error("TypeError", <<"terminated">>))
            [] body = "invalidJson" /\ json ->
                 MethodThrows(inv, Error("SyntaxError", <<"Unexpected token <">>))
            [] body = "mismatch" /\ json ->
                 MethodThrows(inv, createUnexpectedResponseError(EndpointName(inv.method)))
            [] OTHER -> MethodReturns(inv))

\* distinct object identifiers, in an order that is not sorted
IdUniverse == <<5, 3, 9, 2, 7, 4, 8, 6>>

\* no search-museum-objects execution
NoPaging == [ids |-> <<>>, total |-> 0, page |-> 1, pageSize |-> 1,
             result |-> <<>>]

InitClient == invocations = <<>> /\ paging = NoPaging

\* Math.ceil(total / pageSize)
Ceil(total, pageSize) == (total + pageSize - 1) \div pageSize

\* Math.max, Math.min
Max(a, b) == IF a >= b THEN a ELSE b
Min(a, b) == IF a <= b THEN a ELSE b

\* Array.prototype.slice(start, end) for 0 <= start <= end
Slice(list, start, end) == SubSeq(list, start + 1, Min(end, Len(list)))

\* line 122: const start = (safePage - 1) * pageSize
StartFromPage(safePage, pageSize) == safePage * pageSize

Start(safePage, pageSize) == (safePage - 1) * pageSize

\* SearchMuseumObjectsTool.execute, lines 104-135: the structuredContent
\* for the answer {total, objectIDs} of searchObjects
Paginate(total, allObjectIds, page, pageSize) ==
  IF total = 0
    THEN [total |-> 0, page |-> 1, pageSize |-> pageSize, totalPages |-> 0,
          objectIDs |-> <<>>]
    ELSE LET totalPages == Max(1, Ceil(total, pageSize))
             safePage == Min(page, totalPages)
             start == Start(safePage, pageSize)
         IN [total |-> total, page |-> safePage, pageSize |-> pageSize,
             totalPages |-> totalPages,
             objectIDs |-> Slice(allObjectIds, start, start + pageSize)]

\* The requests of a page of a search, with the answer of the Met API to the
\* search: a list of distinct identifiers and a total, which is their
\* number or more.
PagingRequests ==
  {[ids |-> SubSeq(IdUniverse, 1, n), total |-> n + extra, page |-> page,
    pageSize |-> pageSize, result |-> <<>>] :
     n \in 0..MaxListLen, extra \in {0, 1}, page \in 1..MaxPage,
     pageSize \in 1..MaxPageSize}

\* search-museum-objects executes up to its return
SearchExecutes ==
  /\ paging.result = <<>>
  /\ paging' = [paging EXCEPT !.result =
                  <<Paginate(paging.total, paging.ids, paging.page,
                             paging.pageSize)>>]
  /\ UNCHANGED <<limiterVars, explorerVars, invocations>>

NextClient ==
  \/ \E tool \in Tools, returnImage \in BOOLEAN : Execute(tool, returnImage)
  \/ \E i \in 1..Len(invocations) : SlotGranted(i)
  \/ \E i \in 1..Len(invocations) : SignalTimesOut(i)
  \/ \E i \in 1..Len(invocations), error \in TransportErrors : FetchRejects(i, error)
  \/ \E i \in 1..Len(invocations), status \in Statuses : HeadersArrive(i, status)
  \/ \E i \in 1..Len(invocations), body \in Bodies : BodyArrives(i, body)

(***************************************************************************)
(* Met Explorer widget (src/ui/met-explorer/mcp-app.ts)                    *)
(***************************************************************************)
Queries == {"", "monet"}

\* null of searchRequest, selectedObject, a slot of the ordered array and
\* lastResultsContextSignature
NullRequest == "null"
NullObject == 0
NullSignature == <<>>

\* runWithConcurrency, line 432: one worker per i < concurrency
OneWorkerTooMany == 1..(Concurrency + 1)

Workers == 1..Concurrency

\* setStatus(message, isError): the message is one of a fixed set of texts;
\* `failed` is the number of failed previews the text mentions, if any.
Status(kind, isError) == [kind |-> kind, isError |-> isError, failed |-> 0]

\* lines 329-335: the status after a page with at least one card
LoadedStatusSilent(failedCount) == Status("loaded", FALSE)

LoadedStatus(failedCount) ==
  IF failedCount > 0
    THEN [kind |-> "loadedSomeFailed", isError |-> FALSE, failed |-> failedCount]
    ELSE Status("loaded", FALSE)

\* createInitialState()
InitialState ==
  [ results |-> <<>>,
    selectedObject |-> NullObject,
    viewMode |-> "results",
    latestSearchToken |-> 0,
    latestDetailsToken |-> 0,
    searchRequest |-> NullRequest,
    currentPage |-> 1,
    totalResults |-> 0,
    totalPages |-> 0,
    pageSize |-> DefaultPageSize,
    isBusy |-> FALSE,
    isResultsLoading |-> FALSE,
    isDetailsLoading |-> FALSE,
    lastResultsContextSignature |-> NullSignature,
    launch |-> "",
    isInitialized |-> FALSE,
    departmentsLoaded |-> FALSE,
    pendingLaunchSearchSignature |-> NullSignature,
    lastLaunchSearchSignature |-> NullSignature,
    queryInput |-> "",
    addedContextObjectIds |-> {},
    isAddingToContext |-> FALSE,
    status |-> Status("", FALSE) ]

NoDetails ==
  [active |-> FALSE, token |-> 0, objectId |-> NullObject, outcome |-> ""]

\* init() awaits app.connect(); neither ontoolinput nor ontoolresult has
\* been called
NoStartup == [pc |-> "connect", toolInput |-> FALSE, toolResult |-> FALSE]

\* no addSelectedObjectToContext call has been made.  `accepted` is
\* history: the objects of which the host has accepted a delivery.
NoAdding ==
  [pc |-> "idle", objectId |-> NullObject, hasImagePayload |-> FALSE,
   canSendImagePayload |-> FALSE, host |-> [image |-> FALSE, message |-> FALSE],
   delivered |-> FALSE, calls |-> 0, accepted |-> {}]

\* no results context is being compared
NoPayloads == [built |-> FALSE, contexts |-> <<>>, text |-> <<>>,
               structuredContent |-> <<>>, signature |-> <<>>]

InitExplorer ==
  /\ state = InitialState
  /\ searches = <<>>
  /\ details = NoDetails
  /\ startup = NoStartup
  /\ adding = NoAdding
  /\ payloads = NoPayloads

\* ++state.latestSearchToken, ++state.latestDetailsToken
TokenNotAdvanced(latest) == latest

NextToken(latest) == latest + 1

\* The locals of a loadSearchPage call suspended at its await of the
\* search-museum-objects tool call.  `attempts` is history: the host calls
\* its syncSearchResultsToModelContext call has made, in order; `failed`
\* is history: the call went through its catch; `request` and `launched`
\* are history: the searchRequest the call was started for, and the launch
\* signature when maybeRunPendingLaunchSearch started it.
NewSearch(token, page) ==
  [ token |-> token,
    page |-> page,
    pc |-> "page",
    ids |-> <<>>,
    queue |-> 1,
    workers |-> [w \in Workers |-> 0],
    ordered |-> <<>>,
    failedCount |-> 0,
    signature |-> NullSignature,
    outcome |-> <<>>,
    lastSettled |-> 0,
    attempts |-> <<>>,
    failed |-> FALSE,
    request |-> NullRequest,
    launched |-> NullSignature,
    supersededIn |-> "" ]

\* A call that has returned: its locals are gone.
Returned(r) ==
  [NewSearch(r.token, r.page) EXCEPT !.pc = "done",
                                     !.request = r.request,
                                     !.launched = r.launched,
                                     !.supersededIn = r.supersededIn]

\* history: the stage each unfinished call is in when a newer token is
\* issued; the locals of the calls that have returned are dropped
Superseded(ss) ==
  [i \in 1..Len(ss) |->
     IF ss[i].pc = "done" THEN Returned(ss[i])
     ELSE IF ss[i].supersededIn = ""
       THEN [ss[i] EXCEPT !.supersededIn = ss[i].pc]
       ELSE ss[i]]

\* loadSearchPage, lines 279-292: up to the await of the page-level call.
\* The caller has made sure state.searchRequest is set.
\* Gives the new state and the new list of calls.
LoadSearchPageFrom(st, ss, page) ==
  LET token == NextToken(st.latestSearchToken)
  IN [st |-> [st EXCEPT !.latestSearchToken = token,
                        !.results = <<>>,
                        !.isResultsLoading = TRUE,
                        !.status = Status("searching", FALSE),
                        !.isBusy = TRUE],
      ss |-> Append(Superseded(ss),
                    [NewSearch(token, page) EXCEPT !.request = st.searchRequest])]

LoadSearchPage(st, page) ==
  LET after == LoadSearchPageFrom(st, searches, page)
  IN /\ state' = after.st
     /\ searches' = after.ss

\* runSearch, lines 232-267, called with the state `st`: it reads the query
\* from the search form.  Gives the new state and the new list of calls.
RunSearchFrom(st, ss) ==
  IF st.queryInput = ""
    THEN [st |-> [st EXCEPT !.status = Status("enterQuery", TRUE)], ss |-> ss]
    ELSE LoadSearchPageFrom(
           [st EXCEPT !.searchRequest = st.queryInput,
                      !.latestDetailsToken = NextToken(@),
                      !.pageSize = DefaultPageSize,
                      !.currentPage = 1,
                      !.totalResults = 0,
                      !.totalPages = 0,
                      !.selectedObject = NullObject,
                      !.viewMode = "results"],
           ss, 1)

\* The search form is submitted with the query q typed into it, lines
\* 106-109.
RunSearch(q, maxSearches) ==
  /\ UNCHANGED <<limiterVars, clientVars, contextVars, details, startup>>
  /\ q # "" => Len(searches) < maxSearches
  /\ LET after == RunSearchFrom([state EXCEPT !.queryInput = q], searches)
     IN /\ state' = after.st
        /\ searches' = after.ss

\* getLaunchSearchSignature, state.ts lines 87-101, for the launch query q
\* (trimmed; "" when the launch has none) with the default filters
LaunchSearchSignature(q) == IF q = "" THEN NullSignature ELSE <<q>>

\* line 361: state.pendingLaunchSearchSignature === state.lastLaunchSearchSignature
NeverAlreadyRun(st) == FALSE

AlreadyRun(st) ==
  st.pendingLaunchSearchSignature = st.lastLaunchSearchSignature

\* maybeRunPendingLaunchSearch, lines 354-373, called with the state `st`:
\* up to its return or to the first await of the search it runs.
MaybeRunPendingLaunchSearch(st, ss) ==
  IF ~st.isInitialized \/ ~st.departmentsLoaded
    THEN [st |-> st, ss |-> ss]
  ELSE IF st.pendingLaunchSearchSignature = NullSignature
    THEN [st |-> st, ss |-> ss]
  ELSE IF AlreadyRun(st)
    THEN [st |-> [st EXCEPT !.pendingLaunchSearchSignature = NullSignature],
          ss |-> ss]
  ELSE IF st.isBusy \/ st.isResultsLoading
    THEN [st |-> st, ss |-> ss]
  ELSE
    LET signature == st.pendingLaunchSearchSignature
        after == RunSearchFrom(
                   [st EXCEPT !.pendingLaunchSearchSignature = NullSignature,
                              !.lastLaunchSearchSignature = signature],
                   ss)
    IN IF Len(after.ss) > Len(ss)
         THEN [after EXCEPT !.ss[Len(after.ss)].launched = signature]
         ELSE after

\* goToPage, lines 269-277, called by the previous / next page buttons
GoToPageInvalidatingDetails(delta, maxSearches) ==
  LET page == state.currentPage + delta
  IN /\ state.searchRequest # NullRequest
     /\ ~(page < 1 \/ (state.totalPages > 0 /\ page > state.totalPages))
     /\ Len(searches) < maxSearches
     /\ LoadSearchPage([state EXCEPT !.latestDetailsToken = NextToken(@)], page)
     /\ UNCHANGED <<limiterVars, clientVars, contextVars, details, startup>>

GoToPage(delta, maxSearches) ==
  LET page == state.currentPage + delta
  IN /\ state.searchRequest # NullRequest
     /\ ~(page < 1 \/ (state.totalPages > 0 /\ page > state.totalPages))
     /\ Len(searches) < maxSearches
     /\ LoadSearchPage(state, page)
     /\ UNCHANGED <<limiterVars, clientVars, contextVars, details, startup>>

\* ordered.filter(item => item !== null)
Compact(ordered) == SelectSeq(ordered, LAMBDA card : card # NullObject)

\* The card built from a parsed get-museum-object result, lines 404-410: its
\* objectID is the one the server returned for the requested object.
Card(objectId) == objectId

\* getSearchResultsContextSignature: q | currentPage | summary text
Signature(st) ==
  <<st.searchRequest, st.currentPage,
    IF st.totalPages > 1 THEN st.totalPages ELSE 1, st.totalResults,
    st.results>>

\* The token comparisons of loadSearchPage and of the hydration worker.
NeverStale(token) == FALSE

StaleAfterHydration(token) == token # state.latestSearchToken

NeverStaleInCatch(token) == FALSE

StaleInCatch(token) == token # state.latestSearchToken

NeverCurrentInFinally(st, token) == FALSE

CurrentInFinally(st, token) == token = st.latestSearchToken

WorkerNeverChecks(token) == TRUE

CurrentInWorker(token) == token = state.latestSearchToken

\* finally, lines 346-351: setBusy(false)
Finally(st, token) ==
  IF CurrentInFinally(st, token) THEN [st EXCEPT !.isBusy = FALSE] ELSE st

\* finally, line 350: void maybeRunPendingLaunchSearch(), with the state
\* `st` that setBusy(false) has left
Returning(st, ss, token) ==
  IF CurrentInFinally(st, token)
    THEN MaybeRunPendingLaunchSearch(st, ss)
    ELSE [st |-> st, ss |-> ss]

\* const item = queue.shift(), line 436: the queue is the suffix of the
\* items that starts at position `queue`
QueuePeek(queue) == queue

QueueShift(queue) == queue + 1

\* runWithConcurrency, lines 435-441, and the worker's first check, lines
\* 391-393: worker w takes the next queued item and starts its fetch; with a
\* stale token every item it takes is skipped, which empties the queue.
PullNext(r, w) ==
  IF r.queue > Len(r.ids)
    THEN [r EXCEPT !.workers[w] = 0]
    ELSE IF CurrentInWorker(r.token)
      THEN [r EXCEPT !.workers[w] = r.queue, !.queue = QueueShift(r.queue)]
      ELSE [r EXCEPT !.workers[w] = 0, !.queue = Len(r.ids) + 1]

\* runWithConcurrency, lines 429-444: the workers are started one after
\* the other, each running up to its first fetch.
RECURSIVE StartWorkers(_, _)
StartWorkers(r, w) ==
  IF w \notin Workers THEN r ELSE StartWorkers(PullNext(r, w), w + 1)

\* await Promise.all(workers), line 446: every worker loop has ended
EveryItemFetched(r) == \A i \in 1..Len(r.outcome) : r.outcome[i] # ""

HydrationFinished(r) == \A w \in Workers : r.workers[w] = 0

\* The delivery strategies of syncSearchResultsToModelContext, in the order
\* of the code: window.openai.setWidgetState (lines 234-241), then the three
\* payload shapes of updateModelContext (trySyncSearchResultsContext).
Strategies ==
  <<"setWidgetState", "content+structuredContent", "content",
    "structuredContent">>

\* what the host does with window.openai: it does not expose setWidgetState,
\* or setWidgetState returns, or it throws
Widgets == {"none", "ok", "throws"}

Attempt(k, result) == [strategy |-> Strategies[k], result |-> result]

\* buildSearchResultsContextText / buildSearchResultsStructuredPayload
\* return null, lines 43-45 and 72-74
NoPayload(st) == st.searchRequest = NullRequest \/ st.results = <<>>

\* line 225: signature === state.state.lastResultsContextSignature
AlwaysChanged(signature, stored) == FALSE

SignatureUnchanged(signature, stored) == signature = stored

\* trySyncSearchResultsContext: the strategy tried after strategy k failed
NextStrategySkipping(k) == k + 2

NextStrategy(k) == k + 1

\* lines 249-250 and 209: every payload shape was rejected; the stored
\* signature is returned
SignatureAsIfSynced(st, signature) == signature

SignatureWhenExhausted(st, signature) == st.lastResultsContextSignature

\* syncSearchResultsToModelContext, lines 218-243, called with the state
\* `st`: up to its return, or to its first await of updateModelContext.
Sync(st, widget) ==
  LET signature == Signature(st)
  IN IF NoPayload(st)
          \/ SignatureUnchanged(signature, st.lastResultsContextSignature)
       THEN [returned |-> TRUE, value |-> st.lastResultsContextSignature,
             attempts |-> <<>>, signature |-> signature]
       ELSE IF widget = "ok"
         THEN [returned |-> TRUE, value |-> signature,
               attempts |-> <<Attempt(1, "ok")>>, signature |-> signature]
         ELSE [returned |-> FALSE, value |-> NullSignature,
               attempts |->
                 (IF widget = "throws" THEN <<Attempt(1, "failed")>> ELSE <<>>)
                   \o <<Attempt(NextStrategy(1), "pending")>>,
               signature |-> signature]

\* loadSearchPage, lines 317-351: after hydrateObjects has returned.
\* Gives the new state and the call's new locals.
AfterHydration(r, widget) ==
  IF StaleAfterHydration(r.token)
    THEN [st |-> state, r |-> [r EXCEPT !.pc = "done"]]
    ELSE
      LET cards == Compact(r.ordered)
          shown == [state EXCEPT !.results = cards, !.isResultsLoading = FALSE]
      IN IF cards = <<>>
           THEN [st |-> Finally([shown EXCEPT !.status =
                                   Status("previewsFailed", TRUE)], r.token),
                 r |-> [r EXCEPT !.pc = "done"]]
           ELSE
             LET loaded == [shown EXCEPT !.status = LoadedStatus(r.failedCount)]
                 sync == Sync(loaded, widget)
             IN IF sync.returned
                  THEN [st |-> Finally([loaded EXCEPT
                                          !.lastResultsContextSignature = sync.value],
                                       r.token),
                        r |-> [r EXCEPT !.pc = "done",
                                        !.signature = sync.signature,
                                        !.attempts = sync.attempts]]
                  ELSE [st |-> loaded,
                        r |-> [r EXCEPT !.pc = "publishing",
                                        !.signature = sync.signature,
                                        !.attempts = sync.attempts]]

\* The hydration of call r goes on after a worker has taken its next item.
Continue(s, r, widget) ==
  IF HydrationFinished(r)
    THEN LET after == AfterHydration(r, widget)
             ss == [searches EXCEPT ![s] = after.r]
             returned == IF after.r.pc = "done"
                           THEN Returning(after.st, ss, r.token)
                           ELSE [st |-> after.st, ss |-> ss]
         IN /\ state' = returned.st
            /\ searches' = returned.ss
    ELSE /\ state' = state
         /\ searches' = [searches EXCEPT ![s] = r]

\* The answers of the search-museum-objects tool to a request for `page`:
\* no result, or one page of a two-page result.
SearchResponses(page, pageSize, maxIds) ==
  {[total |-> 0, page |-> 1, pageSize |-> pageSize, totalPages |-> 0,
    objectIDs |-> <<>>]}
  \cup
  {[total |-> 2 * pageSize, page |-> IF page > 2 THEN 2 ELSE page,
    pageSize |-> pageSize, totalPages |-> 2,
    objectIDs |-> SubSeq(IdUniverse, page, page + n - 1)]
     : n \in 1..maxIds}

\* loadSearchPage, lines 297-316: the page-level call has returned `resp`.
PageResolves(s, maxIds) ==
  /\ searches[s].pc = "page"
  /\ \E resp \in SearchResponses(searches[s].page, state.pageSize, maxIds) :
       LET r == searches[s]
           totals == [state EXCEPT !.totalResults = resp.total,
                                   !.currentPage = resp.page,
                                   !.pageSize = resp.pageSize,
                                   !.totalPages = resp.totalPages]
       IN IF resp.objectIDs = <<>>
            THEN LET returned ==
                       Returning(Finally([totals EXCEPT
                                            !.results = <<>>,
                                            !.isResultsLoading = FALSE,
                                            !.status = Status("noObjects", FALSE)],
                                         r.token),
                                 [searches EXCEPT ![s].pc = "done"], r.token)
                 IN /\ state' = returned.st
                    /\ searches' = returned.ss
            ELSE
              LET started ==
                    StartWorkers(
                      [r EXCEPT !.pc = "hydrating",
                                !.ids = resp.objectIDs,
                                !.ordered = [i \in 1..Len(resp.objectIDs) |-> NullObject],
                                !.outcome = [i \in 1..Len(resp.objectIDs) |-> ""]],
                      1)
                  previews == [totals EXCEPT !.status = Status("loadingPreviews", FALSE)]
              IN IF HydrationFinished(started)
                   THEN /\ StaleAfterHydration(r.token)
                        /\ state' = previews
                        /\ searches' = [searches EXCEPT ![s] = [started EXCEPT !.pc = "done"]]
                   ELSE /\ state' = previews
                        /\ searches' = [searches EXCEPT ![s] = started]
  /\ UNCHANGED <<limiterVars, clientVars, contextVars, details, startup>>

\* loadSearchPage, lines 338-351: the page-level call has failed.
PageRejects(s) ==
  /\ searches[s].pc = "page"
  /\ LET caught == IF StaleInCatch(searches[s].token)
                     THEN Finally(state, searches[s].token)
                     ELSE Finally([state EXCEPT !.isResultsLoading = FALSE,
                                                !.status = Status("error", TRUE)],
                                  searches[s].token)
         returned == Returning(caught,
                               [searches EXCEPT ![s].pc = "done",
                                                ![s].failed = TRUE],
                               searches[s].token)
     IN /\ state' = returned.st
        /\ searches' = returned.ss
  /\ UNCHANGED <<limiterVars, clientVars, contextVars, details, startup>>

\* ordered[index] = card, line 404
WriteSlotAppend(ordered, index, card) ==
  LET free == {i \in 1..Len(ordered) : ordered[i] = NullObject}
      first == CHOOSE i \in free : \A j \in free : i <= j
  IN [ordered EXCEPT ![first] = card]

WriteSlot(ordered, index, card) == [ordered EXCEPT ![index] = card]

\* failedCount += 1, line 413
FailureNotCounted(failedCount) == failedCount

CountFailure(failedCount) == failedCount + 1

\* the call returns a result that parses, rejects (or returns isError), or
\* returns a result parseObjectResult cannot parse
FetchOutcomes == {"ok", "reject", "unparsable"}

\* hydrateObjects' worker, lines 395-415: the get-museum-object call of
\* worker w has settled; then the worker's loop goes on.
FetchSettles(s, w, outcome, widget) ==
  /\ searches[s].pc = "hydrating"
  /\ searches[s].workers[w] # 0
  /\ LET r == searches[s]
         index == r.workers[w]
         applied ==
           [r EXCEPT
              !.ordered = IF outcome = "ok"
                            THEN WriteSlot(@, index, Card(r.ids[index]))
                            ELSE @,
              !.failedCount = IF outcome = "reject" THEN CountFailure(@) ELSE @,
              !.outcome[index] = outcome,
              !.lastSettled = index]
     IN Continue(s, PullNext(applied, w), widget)
  /\ UNCHANGED <<limiterVars, clientVars, contextVars, details, startup>>

\* trySyncSearchResultsContext, lines 166-211, and loadSearchPage, lines
\* 336 and 346-351: the pending updateModelContext call of call s has
\* resolved (delivered) or rejected.  After a rejection the next payload
\* shape is tried; after the last one the stored signature is returned.
PublishSettles(s, delivered) ==
  /\ searches[s].pc = "publishing"
  /\ LET r == searches[s]
         n == Len(r.attempts)
         k == CHOOSE i \in 1..Len(Strategies) : Strategies[i] = r.attempts[n].strategy
         settled == [r.attempts EXCEPT ![n].result =
                       IF delivered THEN "ok" ELSE "failed"]
     IN IF ~delivered /\ NextStrategy(k) <= Len(Strategies)
          THEN /\ searches' = [searches EXCEPT ![s].attempts =
                                 Append(settled, Attempt(NextStrategy(k), "pending"))]
               /\ state' = state
          ELSE LET returned ==
                     Returning(Finally([state EXCEPT !.lastResultsContextSignature =
                                          IF delivered
                                            THEN r.signature
                                            ELSE SignatureWhenExhausted(state, r.signature)],
                                       r.token),
                               [searches EXCEPT ![s].attempts = settled,
                                                ![s].pc = "done"],
                               r.token)
               IN /\ searches' = returned.ss
                  /\ state' = returned.st
  /\ UNCHANGED <<limiterVars, clientVars, contextVars, details, startup>>

\* lines 466-468 (and the click handler, object-context.ts lines 452-454):
\* if (state.isDetailsLoading) return
NeverDetailsLoading(st) == FALSE

DetailsLoading(st) == st.isDetailsLoading

\* loadObjectDetails, lines 465-477: a result card is clicked.  A click
\* while a detail load is in flight is ignored: it changes nothing.
LoadObjectDetails(objectId) ==
  /\ \E i \in 1..Len(state.results) : state.results[i] = objectId
  /\ ~DetailsLoading(state)
  /\ LET token == NextToken(state.latestDetailsToken)
     IN /\ state' = [state EXCEPT !.latestDetailsToken = token,
                                  !.isDetailsLoading = TRUE,
                                  !.status = Status("loadingObject", FALSE)]
        /\ details' = [active |-> TRUE, token |-> token, objectId |-> objectId,
                        outcome |-> ""]
  /\ UNCHANGED <<limiterVars, clientVars, contextVars, searches, startup>>

\* lines 483-485: token !== state.latestDetailsToken
DetailsNeverStale(token) == TRUE

CurrentDetails(token) == token = state.latestDetailsToken

\* loadObjectDetails, lines 482-500: the get-museum-object call has settled.
\* When it has failed, the finally clears isDetailsLoading and the
\* rejection reaches the catch of the card's click handler
\* (object-context.ts lines 455-457), which sets the status to the error.
\* `outcome` is history: what the call did with the response.
DetailsSettles(ok) ==
  /\ details.active
  /\ state' =
       IF ~ok
         THEN [state EXCEPT !.isDetailsLoading = FALSE,
                            !.status = Status("error", TRUE)]
       ELSE IF CurrentDetails(details.token)
         THEN [state EXCEPT !.selectedObject = details.objectId,
                            !.viewMode = "detail",
                            !.status = Status("loadedObject", FALSE),
                            !.isDetailsLoading = FALSE]
         ELSE [state EXCEPT !.isDetailsLoading = FALSE]
  /\ details' = [details EXCEPT
                  !.active = FALSE,
                  !.outcome = IF ~ok THEN "failed"
                              ELSE IF CurrentDetails(details.token) THEN "shown"
                              ELSE "discarded"]
  /\ UNCHANGED <<limiterVars, clientVars, contextVars, searches, startup>>

\* the back-to-results button, lines 120-123
BackToResults ==
  /\ state.viewMode = "detail"
  /\ state' = [state EXCEPT !.viewMode = "results"]
  /\ UNCHANGED <<limiterVars, clientVars, contextVars, searches, details, startup>>

\* applyLaunchState, lines 177-206, called by ontoolinput with the
\* arguments of the open-met-explorer call and by ontoolresult with the
\* initialState of its result: q is the launch query ("" when absent).
ApplyLaunchState(q) ==
  LET after == MaybeRunPendingLaunchSearch(
                 [state EXCEPT !.launch = q,
                               !.queryInput = q,
                               !.pendingLaunchSearchSignature =
                                 LaunchSearchSignature(q)],
                 searches)
  IN /\ state' = after.st
     /\ searches' = after.ss

\* app.ontoolinput, lines 86-88.  OpenMetExplorerTool.execute returns its
\* arguments as initialState, so both deliveries carry the same launch.
ToolInput(q) ==
  /\ ~startup.toolInput
  /\ startup.toolResult => q = state.launch
  /\ ApplyLaunchState(q)
  /\ startup' = [startup EXCEPT !.toolInput = TRUE]
  /\ UNCHANGED <<limiterVars, clientVars, contextVars, details>>

\* app.ontoolresult, lines 90-93
ToolResult(q) ==
  /\ ~startup.toolResult
  /\ startup.toolInput => q = state.launch
  /\ ApplyLaunchState(q)
  /\ startup' = [startup EXCEPT !.toolResult = TRUE]
  /\ UNCHANGED <<limiterVars, clientVars, contextVars, details>>

\* init, lines 147-154: app.connect() has resolved; init awaits the
\* list-departments call of loadDepartments
ConnectResolves ==
  /\ startup.pc = "connect"
  /\ startup' = [startup EXCEPT !.pc = "departments"]
  /\ state' = [state EXCEPT !.viewMode = "results"]
  /\ UNCHANGED <<limiterVars, clientVars, contextVars, searches, details>>

\* init, lines 155-162: loadDepartments has returned
DepartmentsResolve ==
  /\ startup.pc = "departments"
  /\ startup' = [startup EXCEPT !.pc = "done"]
  /\ LET after == MaybeRunPendingLaunchSearch(
                    [state EXCEPT !.departmentsLoaded = TRUE,
                                  !.isInitialized = TRUE],
                    searches)
     IN /\ state' = IF after.st.searchRequest = NullRequest
                      THEN [after.st EXCEPT !.status = Status("ready", FALSE)]
                      ELSE after.st
        /\ searches' = after.ss
  /\ UNCHANGED <<limiterVars, clientVars, contextVars, details>>

\* init, lines 164-166: app.connect() or loadDepartments has failed
InitFails ==
  /\ startup.pc \in {"connect", "departments"}
  /\ startup' = [startup EXCEPT !.pc = "failed"]
  /\ state' = [state EXCEPT !.status = Status("error", TRUE)]
  /\ UNCHANGED <<limiterVars, clientVars, contextVars, searches, details>>

(***************************************************************************)
(* Adding the selected object to the conversation (object-context.ts)      *)
(***************************************************************************)
\* the objects whose get-museum-object result has an image block
\* (getImageContent, mcp-app.ts lines 487-490)
ObjectsWithImage == {5}

\* state.selectedImageData && state.selectedImageMimeType: both are
\* assigned with selectedObject (mcp-app.ts lines 257-259 and 488-490)
SelectedImageData(st) ==
  st.selectedObject # NullObject /\ st.selectedObject \in ObjectsWithImage

\* what the host declares: `image` is capabilities ? Boolean(capabilities.image)
\* : true (line 184); `message` is supportsTextModality(messageCapabilities)
Hosts == [image : BOOLEAN, message : BOOLEAN]

\* what the host does with app.sendMessage: it resolves, resolves with
\* isError, or rejects
MessageResults == {"ok", "isError", "rejects"}

\* sendToolCallMessageForImageContext, lines 166-168: if (result.isError) throw
MessageNotRejected(result) == result # "rejects"

MessageAccepted(result) == result = "ok"

\* markObjectAsAdded, lines 75-85
MarkObjectAsAdded(st, objectId) ==
  [st EXCEPT !.addedContextObjectIds = @ \cup {objectId}]

\* addSelectedObjectToContext, lines 374-377: the status of the way out,
\* then the finally
Finish(st, status) ==
  [st EXCEPT !.status = status, !.isAddingToContext = FALSE]

\* updateAddContextButton, lines 59-66: the button is enabled
CanAdd(st) ==
  /\ st.selectedObject # NullObject
  /\ ~st.isAddingToContext
  /\ st.selectedObject \notin st.addedContextObjectIds

\* addSelectedObjectToContext, lines 337-352: the button is clicked; up to
\* the await of updateModelContext.
AddSelectedObjectToContext(host) ==
  /\ CanAdd(state)
  /\ adding.calls < MaxAdds
  /\ state' = [state EXCEPT !.isAddingToContext = TRUE]
  /\ adding' = [adding EXCEPT
                  !.pc = "update",
                  !.objectId = state.selectedObject,
                  !.hasImagePayload = SelectedImageData(state),
                  !.canSendImagePayload = SelectedImageData(state) /\ host.image,
                  !.host = host,
                  !.delivered = FALSE,
                  !.calls = @ + 1]
  /\ UNCHANGED <<limiterVars, clientVars, searches, details, startup, payloads>>

\* the host has accepted a delivery for the object of the call (history)
HostAccepted(a) ==
  [a EXCEPT !.delivered = TRUE, !.accepted = @ \cup {a.objectId}]

\* sendToolCallMessageForImageContext, lines 148-151, reached from `from`:
\* when the host takes no text message the fallback is not handled and the
\* caller sets `unavailable`; otherwise app.sendMessage is awaited.
MessageFallback(st, a, from, unavailable) ==
  IF a.host.message
    THEN [st |-> st, a |-> [a EXCEPT !.pc = from]]
    ELSE [st |-> Finish(st, unavailable), a |-> [a EXCEPT !.pc = "done"]]

\* addSelectedObjectToContext, lines 352-373, and handleContextUpdateFailure,
\* lines 301-312: the updateModelContext call has resolved or rejected.
UpdateSettles(ok) ==
  /\ adding.pc = "update"
  /\ LET marked == MarkObjectAsAdded(state, adding.objectId)
         after ==
           IF ok
             THEN IF adding.canSendImagePayload
                    THEN [st |-> Finish(marked, Status("addedWithImage", FALSE)),
                          a |-> [HostAccepted(adding) EXCEPT !.pc = "done"]]
                  ELSE IF adding.hasImagePayload
                    THEN MessageFallback(marked, HostAccepted(adding),
                                         "messageAfterAdd",
                                         Status("addedNoImageBlocks", FALSE))
                    ELSE [st |-> Finish(marked, Status("added", FALSE)),
                          a |-> [HostAccepted(adding) EXCEPT !.pc = "done"]]
             ELSE IF SelectedImageData(state)
               THEN [st |-> state, a |-> [adding EXCEPT !.pc = "retry"]]
               ELSE MessageFallback(state, adding, "messageAfterFailure",
                                    Status("error", TRUE))
     IN /\ state' = after.st
        /\ adding' = after.a
  /\ UNCHANGED <<limiterVars, clientVars, searches, details, startup, payloads>>

\* handleContextUpdateFailure, lines 314-328: the text-only
\* updateModelContext call has resolved or rejected.
RetrySettles(ok) ==
  /\ adding.pc = "retry"
  /\ LET after ==
           IF ok
             THEN MessageFallback(MarkObjectAsAdded(state, adding.objectId),
                                  HostAccepted(adding), "messageAfterRetry",
                                  Status("addedImageRejected", FALSE))
             ELSE MessageFallback(state, adding, "messageAfterFailure",
                                  Status("error", TRUE))
     IN /\ state' = after.st
        /\ adding' = after.a
  /\ UNCHANGED <<limiterVars, clientVars, searches, details, startup, payloads>>

\* sendToolCallMessageForImageContext, lines 158-171, and its callers,
\* lines 242-255 and 283-292: the app.sendMessage call has settled.
MessageSettles(result) ==
  /\ adding.pc \in {"messageAfterAdd", "messageAfterRetry", "messageAfterFailure"}
  /\ state' =
       IF MessageAccepted(result)
         THEN Finish(MarkObjectAsAdded(state, adding.objectId),
                     IF adding.pc = "messageAfterAdd"
                       THEN Status("addedSentMessage", FALSE)
                       ELSE Status("sentMessage", FALSE))
         ELSE Finish(state, Status("error", TRUE))
  /\ adding' = [(IF result = "ok" THEN HostAccepted(adding) ELSE adding)
                  EXCEPT !.pc = "done"]
  /\ UNCHANGED <<limiterVars, clientVars, searches, details, startup, payloads>>

(***************************************************************************)
(* Results context: summary text, structured payload and signature        *)
(* (search-results-context.ts)                                             *)
(***************************************************************************)
\* departmentId of a request made with no department selected
NoDepartment == 0

\* SearchRequest: what runSearch reads from the form, mcp-app.ts lines
\* 239-250
SearchRequests ==
  [q : {"monet", "degas"}, hasImages : BOOLEAN, title : BOOLEAN,
   departmentId : {NoDepartment, 11}]

\* null of searchRequest among these records: no search has been made
NoSearchRequest ==
  [q |-> NullRequest, hasImages |-> FALSE, title |-> FALSE,
   departmentId |-> NoDepartment]

\* the card of an object: what get-museum-object says of it
CardOf(objectId) ==
  [objectID |-> objectId, title |-> <<"title", objectId>>,
   artistDisplayName |-> <<"artist", objectId>>,
   department |-> <<"department", objectId % 2>>]

\* SearchResultsContextSyncState: the fields of AppState the sync reads
ContextsOf(requests) ==
  [searchRequest : requests,
   results : {<<>>, <<CardOf(5)>>, <<CardOf(5), CardOf(3)>>},
   currentPage : 1..2,
   totalPages : {0, 2},
   totalResults : {14},
   pageSize : {DefaultPageSize}]

ResultsContexts == ContextsOf(SearchRequests \cup {NoSearchRequest})

\* return null, lines 43-45 and 72-74
NullPayload == <<>>

\* buildSearchResultsContextText: the lines of the text that vary; the
\* closing instructions are the same in every text
BuildSearchResultsContextText(c) ==
  IF c.searchRequest = NoSearchRequest \/ c.results = <<>>
    THEN NullPayload
    ELSE [queryLine |-> c.searchRequest.q,
          pageLine |-> <<c.currentPage, Max(c.totalPages, 1), c.totalResults>>,
          resultLines |->
            [i \in 1..Len(c.results) |->
               <<c.results[i].objectID, c.results[i].title,
                 c.results[i].artistDisplayName>>]]

\* buildSearchResultsStructuredPayload
BuildSearchResultsStructuredPayload(c) ==
  IF c.searchRequest = NoSearchRequest \/ c.results = <<>>
    THEN NullPayload
    ELSE [source |-> "met-explorer-app",
          type |-> "visible-results-page",
          query |-> c.searchRequest.q,
          hasImages |-> c.searchRequest.hasImages,
          titleOnly |-> c.searchRequest.title,
          departmentId |-> c.searchRequest.departmentId,
          page |-> c.currentPage,
          pageSize |-> c.pageSize,
          totalPages |-> Max(c.totalPages, 1),
          totalResults |-> c.totalResults,
          results |->
            [i \in 1..Len(c.results) |->
               [objectID |-> c.results[i].objectID,
                title |-> c.results[i].title,
                artistDisplayName |-> c.results[i].artistDisplayName,
                department |-> c.results[i].department]]]

\* getSearchResultsContextSignature: `${q ?? ''}|${currentPage}|${text}`
GetSearchResultsContextSignature(c, text) ==
  <<IF c.searchRequest = NoSearchRequest THEN "" ELSE c.searchRequest.q,
    c.currentPage, text>>

\* syncSearchResultsToModelContext, lines 218-224, for each of two states
\* of the explorer: the text, the structured payload and, when there is a
\* payload, the signature.
BuildPayloads ==
  /\ ~payloads.built
  /\ payloads.contexts # <<>>
  /\ LET text == [i \in 1..2 |->
                    BuildSearchResultsContextText(payloads.contexts[i])]
     IN payloads' =
          [payloads EXCEPT
             !.built = TRUE,
             !.text = text,
             !.structuredContent =
               [i \in 1..2 |->
                  BuildSearchResultsStructuredPayload(payloads.contexts[i])],
             !.signature =
               [i \in 1..2 |->
                  IF text[i] = NullPayload
                    THEN NullSignature
                    ELSE GetSearchResultsContextSignature(
                           payloads.contexts[i], text[i])]]
  /\ UNCHANGED <<limiterVars, clientVars, state, searches, details, startup,
                 adding>>

(***************************************************************************)
(* Specifications                                                          *)
(***************************************************************************)
InitLimiter ==
  /\ now = 0
  /\ requestsThisSecond = 0
  /\ lastRequestTime = 0
  /\ pending = <<>>
  /\ wakeAt = 0
  /\ jobs = <<>>
  /\ outbound = {}
  /\ nBursts = 0
  /\ grantedAt = <<>>

NextLimiter ==
  \/ FetchJson
  \/ GetImageAsBase64
  \/ RunJob
  \/ TimerFires
  \/ Tick

Init == InitLimiter /\ InitExplorer /\ InitClient

SpecLimiter == Init /\ [][NextLimiter]_vars

\* Tool executions whose client calls meet every answer of the network.
SpecClient == Init /\ [][NextClient]_vars

\* search-museum-objects paginating every answer of the search endpoint.
InitPagination ==
  /\ InitLimiter
  /\ InitExplorer
  /\ invocations = <<>>
  /\ paging \in PagingRequests

SpecPagination == InitPagination /\ [][SearchExecutes]_vars

\* A burst: all calls are made at time 0 on the newly constructed limiter.
BurstAtZero == now = 0 /\ \E k \in 1..MaxCalls : RateLimiterFetch(k)

NextBurst ==
  \/ BurstAtZero
  \/ RunJob
  \/ TimerFires
  \/ Tick

SpecBurst == Init /\ [][NextBurst]_vars

\* The event loop runs every queued microtask, fires every due timer, and
\* time passes.
FairLimiter ==
  /\ Init
  /\ [][NextLimiter]_vars
  /\ WF_vars(RunJob)
  /\ WF_vars(TimerFires)
  /\ WF_vars(Tick)

\* The explorer with overlapping searches, page changes and detail loads.
NextExplorer ==
  \/ \E q \in Queries \ {""} : RunSearch(q, MaxSearches)
  \/ \E delta \in {-1, 1} : GoToPage(delta, MaxSearches)
  \/ \E s \in 1..Len(searches) : PageResolves(s, MaxOverlapIds)
  \/ \E s \in 1..Len(searches) : PageRejects(s)
  \/ \E s \in 1..Len(searches), w \in Workers, o \in {"ok", "reject"},
          widget \in {"none"} :
       FetchSettles(s, w, o, widget)
  \/ \E s \in 1..Len(searches), delivered \in BOOLEAN :
       PublishSettles(s, delivered)
  \/ /\ state.latestDetailsToken < MaxDetailsToken
     /\ \E objectId \in {IdUniverse[i] : i \in 1..Len(IdUniverse)} :
          LoadObjectDetails(objectId)
  \/ \E ok \in BOOLEAN : DetailsSettles(ok)
  \/ BackToResults

SpecExplorer == Init /\ [][NextExplorer]_vars

\* The same widget, with room for a second card click after a search.
NextDetails ==
  \/ NextExplorer
  \/ /\ state.latestDetailsToken < MaxDetailLoads
     /\ \E objectId \in {IdUniverse[i] : i \in 1..Len(IdUniverse)} :
          LoadObjectDetails(objectId)

SpecDetails == Init /\ [][NextDetails]_vars

\* One search, cards opened in the detail view and added to the
\* conversation of a host of any behaviour.
NextAdd ==
  \/ \E q \in Queries \ {""} : RunSearch(q, MaxSearches)
  \/ \E s \in 1..Len(searches) : PageResolves(s, MaxOverlapIds)
  \/ \E s \in 1..Len(searches), w \in Workers, widget \in {"none"} :
       FetchSettles(s, w, "ok", widget)
  \/ \E s \in 1..Len(searches) : PublishSettles(s, TRUE)
  \/ /\ state.latestDetailsToken < MaxDetailLoads
     /\ \E objectId \in {IdUniverse[i] : i \in 1..Len(IdUniverse)} :
          LoadObjectDetails(objectId)
  \/ DetailsSettles(TRUE)
  \/ \E host \in Hosts : AddSelectedObjectToContext(host)
  \/ \E ok \in BOOLEAN : UpdateSettles(ok)
  \/ \E ok \in BOOLEAN : RetrySettles(ok)
  \/ \E result \in MessageResults : MessageSettles(result)

SpecAdd == Init /\ [][NextAdd]_vars

\* Two states of the explorer with results on display, and what the sync
\* builds from each.
InitPayloads ==
  /\ InitLimiter
  /\ InitClient
  /\ state = InitialState
  /\ searches = <<>>
  /\ details = NoDetails
  /\ startup = NoStartup
  /\ adding = NoAdding
  /\ \E first \in ResultsContexts, second \in ResultsContexts :
       payloads = [NoPayloads EXCEPT !.contexts = <<first, second>>]

SpecPayloads == InitPayloads /\ [][BuildPayloads]_vars

\* One search whose page is hydrated alone, with longer identifier lists.
NextHydrate ==
  \/ \E q \in Queries : RunSearch(q, 1)
  \/ \E s \in 1..Len(searches) : PageResolves(s, MaxIds)
  \/ \E s \in 1..Len(searches) : PageRejects(s)
  \/ \E s \in 1..Len(searches), w \in Workers, o \in FetchOutcomes,
          widget \in {"none"} :
       FetchSettles(s, w, o, widget)
  \/ \E s \in 1..Len(searches), delivered \in BOOLEAN :
       PublishSettles(s, delivered)

SpecHydrate == Init /\ [][NextHydrate]_vars

\* Searches and page changes publishing to a host of any behaviour.  The
\* search form and the page buttons are used while they are enabled, that
\* is while the explorer is not busy (setBusy, lines 771-773).
NextPublish ==
  \/ ~state.isBusy /\ \E q \in Queries \ {""} : RunSearch(q, MaxPublishes)
  \/ ~state.isBusy /\ \E delta \in {-1, 1} : GoToPage(delta, MaxPublishes)
  \/ \E s \in 1..Len(searches) : PageResolves(s, MaxPublishIds)
  \/ \E s \in 1..Len(searches), w \in Workers, o \in {"ok", "reject"},
          widget \in Widgets :
       FetchSettles(s, w, o, widget)
  \/ \E s \in 1..Len(searches), delivered \in BOOLEAN :
       PublishSettles(s, delivered)

SpecPublish == Init /\ [][NextPublish]_vars

\* Overlapping searches: the page of the first one has more identifiers
\* than there are workers, so that it is superseded while identifiers are
\* queued; the pages of those that supersede it are short.
NextOverlap ==
  \/ \E q \in Queries \ {""} : RunSearch(q, MaxSearches)
  \/ Len(searches) >= 1 /\ PageResolves(1, MaxIds)
  \/ \E s \in 2..Len(searches) : PageResolves(s, MaxOverlapIds)
  \/ \E s \in 1..Len(searches), w \in Workers, o \in {"ok", "reject"},
          widget \in {"none"} :
       FetchSettles(s, w, o, widget)
  \/ \E s \in 1..Len(searches), delivered \in BOOLEAN :
       PublishSettles(s, delivered)

SpecOverlap == Init /\ [][NextOverlap]_vars

\* A search with a long page, and searches superseding it whose page-level
\* call fails.  Every get-museum-object call that has been made settles.
NextDrain ==
  \/ \E q \in Queries \ {""} : RunSearch(q, MaxSearches)
  \/ Len(searches) >= 1 /\ PageResolves(1, MaxIds)
  \/ \E s \in 2..Len(searches) : PageRejects(s)
  \/ \E s \in 1..Len(searches), w \in Workers, o \in {"ok", "reject"},
          widget \in {"none"} :
       FetchSettles(s, w, o, widget)
  \/ \E s \in 1..Len(searches), delivered \in BOOLEAN :
       PublishSettles(s, delivered)

FairDrain ==
  /\ Init
  /\ [][NextDrain]_vars
  /\ WF_vars(\E s \in 1..Len(searches), w \in Workers, o \in {"ok", "reject"} :
               FetchSettles(s, w, o, "none"))

\* the queries typed into the search form
FormQueries == Queries \cup {"degas"}

\* The explorer is launched by open-met-explorer with any query, delivered
\* at any moment, while init runs and the search form is used whenever it
\* is enabled (setBusy, lines 771-773).  Every call that has been made
\* settles.
NextLaunch ==
  \/ \E q \in Queries : ToolInput(q)
  \/ \E q \in Queries : ToolResult(q)
  \/ ConnectResolves
  \/ DepartmentsResolve
  \/ InitFails
  \/ ~state.isBusy /\ \E q \in FormQueries : RunSearch(q, MaxSearches)
  \/ \E s \in 1..Len(searches) : PageResolves(s, MaxOverlapIds)
  \/ \E s \in 1..Len(searches) : PageRejects(s)
  \/ \E s \in 1..Len(searches), w \in Workers, o \in {"ok", "reject"},
          widget \in {"none"} :
       FetchSettles(s, w, o, widget)
  \/ \E s \in 1..Len(searches), delivered \in BOOLEAN :
       PublishSettles(s, delivered)

Settles ==
  \/ \E s \in 1..Len(searches) : PageResolves(s, MaxOverlapIds)
  \/ \E s \in 1..Len(searches) : PageRejects(s)
  \/ \E s \in 1..Len(searches), w \in Workers, o \in {"ok", "reject"} :
       FetchSettles(s, w, o, "none")
  \/ \E s \in 1..Len(searches), delivered \in BOOLEAN :
       PublishSettles(s, delivered)

SpecLaunch == Init /\ [][NextLaunch]_vars

FairLaunch ==
  /\ Init
  /\ [][NextLaunch]_vars
  /\ WF_vars(Settles)

\* The explorer with overlapping searches where every call that has been
\* made settles.
FairExplorer ==
  /\ Init
  /\ [][NextExplorer]_vars
  /\ WF_vars(Settles)

(***************************************************************************)
RECURSIVE GrantsIn(_)
GrantsIn(T) ==
  IF T = {} THEN 0
  ELSE LET t == CHOOSE x \in T : TRUE IN grantedAt[t] + GrantsIn(T \ {t})

GrantTimes == DOMAIN grantedAt

Resolved == {c \in 1..nCalls : pending[c] = "resolved"}

WaitJobs == {i \in 1..Len(jobs) : jobs[i].kind = "waitIfNeeded"}

\* C1: when every call is made at time 0 on a newly constructed limiter, no
\* half-open interval [t, t + 1000) holds more than maxRequestsPerSecond
\* grants, whatever the number of calls.
BurstRateCeiling ==
  \A t \in GrantTimes :
    GrantsIn({u \in GrantTimes : t <= u /\ u < t + WindowMs})
      <= MaxRequestsPerSecond

\* a burst larger than the ceiling whose later calls were granted after a wait
BurstRateCeilingWitness ==
  /\ nCalls > MaxRequestsPerSecond
  /\ Resolved = 1..nCalls
  /\ \E t \in GrantTimes : t >= WindowMs

\* C2: for any arrival pattern, the number of grants inside any rolling
\* one-second window (here: the window of 1000 ms ending at a grant) never
\* exceeds maxRequestsPerSecond.
RollingWindowCeiling ==
  \A t \in GrantTimes :
    GrantsIn({u \in GrantTimes : t - WindowMs < u /\ u <= t})
      <= MaxRequestsPerSecond

\* C3: at most one waitIfNeeded body is active at a time, also across its
\* timer suspension, and requestsThisSecond never exceeds the ceiling.
SerializedCheckAndIncrement ==
  /\ Cardinality(Sleeping) + Cardinality(WaitJobs) <= 1
  /\ requestsThisSecond <= MaxRequestsPerSecond

\* a body suspended on its timer at the ceiling with a caller chained behind it
SerializedWitness ==
  /\ Sleeping # {}
  /\ requestsThisSecond = MaxRequestsPerSecond
  /\ \E c \in 1..nCalls : pending[c] = "chained"

\* C4: a call's fetch is issued only after its own slot acquisition has
\* resolved, and never more calls are issued than slots were granted.
NoCallBypassesLimiter ==
  /\ outbound \subseteq Resolved
  /\ Cardinality(outbound) <= GrantsIn(GrantTimes)
  /\ GrantsIn(GrantTimes) = Cardinality(Resolved)

\* calls have been issued while a later call is still held back by the limiter
NoBypassWitness ==
  /\ Cardinality(outbound) >= MaxRequestsPerSecond
  /\ Sleeping # {}
  /\ Sleeping \cap outbound = {}

\* C5: every acquireSlot call eventually resolves, however many callers are
\* queued and whether or not earlier callers had to wait: whenever some
\* acquisition is outstanding, a state follows in which none is.
AcquisitionEventuallyResolves ==
  (Resolved # 1..nCalls) ~> (Resolved = 1..nCalls)

\* a caller that had to wait behind a suspended one has been granted its slot
AcquisitionWitness ==
  /\ nCalls > MaxRequestsPerSecond + 1
  /\ Resolved = 1..nCalls
  /\ \E t \in GrantTimes : t >= WindowMs

(***************************************************************************)
(* Claims about hydration and the generation tokens                        *)
(***************************************************************************)
Calls == 1..Len(searches)

\* the identifiers whose fetch succeeded, in input order
RECURSIVE Succeeded(_, _)
Succeeded(r, i) ==
  IF i > Len(r.ids) THEN <<>>
  ELSE (IF r.outcome[i] = "ok" THEN <<r.ids[i]>> ELSE <<>>) \o Succeeded(r, i + 1)

Positions(r, o) == {i \in 1..Len(r.ids) : r.outcome[i] = o}

Returns(r) == r.pc \in {"publishing", "done"} /\ r.ids # <<>>

\* C6: whatever the completion order, the slots filled so far and the cards
\* finally shown are the identifiers whose fetch succeeded, in input order.
OrderPreservation ==
  \A s \in Calls :
    LET r == searches[s]
    IN /\ Compact(r.ordered) = Succeeded(r, 1)
       /\ (Returns(r) /\ r.token = state.latestSearchToken)
            => state.results = Succeeded(r, 1)

\* input [5,3,9]: 3 fails and 5 is the last to finish; [5, 9] is shown
OrderPreservationWitness ==
  \E s \in Calls :
    /\ Returns(searches[s])
    /\ searches[s].ids = <<5, 3, 9>>
    /\ searches[s].outcome = <<"ok", "reject", "ok">>
    /\ searches[s].lastSettled = 1
    /\ state.results = <<5, 9>>

\* C7: per-item failures never abort the batch: failedCount is the number
\* of rejected calls, and when hydrateObjects returns every identifier has
\* been fetched, the successes are shown, and the page-level error handler
\* has not run.
PartialFailureTolerance ==
  \A s \in Calls :
    LET r == searches[s]
    IN /\ r.failedCount = Cardinality(Positions(r, "reject"))
       /\ (Returns(r) /\ r.token = state.latestSearchToken)
            => /\ Positions(r, "") = {}
               /\ Len(state.results) = Cardinality(Positions(r, "ok"))
               /\ state.status.kind # "error"

\* three identifiers, one rejected: two cards and failedCount = 1
PartialFailureWitness ==
  \E s \in Calls :
    /\ Returns(searches[s])
    /\ Len(searches[s].ids) = 3
    /\ Cardinality(Positions(searches[s], "reject")) = 1
    /\ Cardinality(Positions(searches[s], "ok")) = 2
    /\ Len(state.results) = 2
    /\ searches[s].failedCount = 1

AllReturned == searches # <<>> /\ \A s \in Calls : searches[s].pc = "done"

\* C8: cards are written to state.results only by the hydration whose
\* token is the latest one; and once every call has returned, where every
\* superseded call was past its page-level response when it was superseded,
\* the visible results are those of the latest search.
StaleResultSuppression ==
  /\ [][(state'.results # state.results /\ state'.results # <<>>)
          => \E s \in Calls :
               /\ searches[s].pc = "hydrating"
               /\ searches[s].token = state'.latestSearchToken
               /\ state'.results = Compact(searches'[s].ordered)]_vars
  /\ []((AllReturned /\ \A s \in Calls : searches[s].supersededIn # "page")
          => state.results = Compact(searches[Len(searches)].ordered))

\* T1 was superseded while hydrating and loaded cards; both have returned
\* and T2's cards, which differ, are shown
StaleResultWitness ==
  /\ Len(searches) = 2
  /\ AllReturned
  /\ searches[1].supersededIn = "hydrating"
  /\ Compact(searches[1].ordered) # <<>>
  /\ state.results # <<>>
  /\ state.results = Compact(searches[2].ordered)
  /\ state.results # Compact(searches[1].ordered)

Shared(st) ==
  <<st.totalResults, st.currentPage, st.pageSize, st.totalPages, st.results,
    st.isResultsLoading, st.status>>

\* C9: a loadSearchPage call whose token is no longer the latest when its
\* page-level response arrives (or fails) changes nothing of totalResults,
\* currentPage, pageSize, totalPages, results, isResultsLoading and the status.
StalePageResponseDiscarded ==
  [][\A s \in Calls :
       (/\ searches[s].pc = "page"
        /\ searches'[s].pc # "page"
        /\ searches[s].token # state.latestSearchToken)
         => Shared(state') = Shared(state)]_vars

NewDetails == details'.active /\ ~details.active

\* C10: the latest token of each stream never decreases; a newly issued
\* token is the stream's latest and greater than every token issued before;
\* exactly the most recently started search is current; and a step that
\* starts no operation changes no token.
GenerationTokens ==
  [][/\ state'.latestSearchToken >= state.latestSearchToken
     /\ state'.latestDetailsToken >= state.latestDetailsToken
     /\ Len(searches') > Len(searches)
          => /\ searches'[Len(searches')].token = state'.latestSearchToken
             /\ \A i \in Calls :
                  searches[i].token < searches'[Len(searches')].token
     /\ Len(searches') = Len(searches)
          => state'.latestSearchToken = state.latestSearchToken
     /\ \A i \in 1..Len(searches') :
          (searches'[i].token = state'.latestSearchToken) <=> (i = Len(searches'))
     /\ NewDetails
          => /\ details'.token = state'.latestDetailsToken
             /\ details'.token > details.token
             /\ details'.token > state.latestDetailsToken
     /\ state'.latestDetailsToken # state.latestDetailsToken
          => (NewDetails \/ Len(searches') > Len(searches))]_vars

\* both streams have issued tokens and a superseded search is still running
GenerationTokensWitness ==
  /\ state.latestSearchToken >= 2
  /\ state.latestDetailsToken >= 2
  /\ details.active
  /\ \E s \in Calls :
       searches[s].pc # "done" /\ searches[s].token < state.latestSearchToken

(***************************************************************************)
(* Claims about the two token streams                                      *)
(***************************************************************************)
StartsDetails ==
  \E objectId \in {IdUniverse[i] : i \in 1..Len(IdUniverse)} :
    LoadObjectDetails(objectId)

StartsRunSearch == \E q \in Queries \ {""} : RunSearch(q, MaxSearches)

StartsPageChange == \E delta \in {-1, 1} : GoToPage(delta, MaxSearches)

\* C11 as stated: starting a detail load never changes latestSearchToken,
\* and starting a search (runSearch or a page change) never changes
\* latestDetailsToken.
IndependentStreamsAsStated ==
  [][/\ StartsDetails
          => state'.latestSearchToken = state.latestSearchToken
     /\ (StartsRunSearch \/ StartsPageChange)
          => state'.latestDetailsToken = state.latestDetailsToken]_vars

\* C11 amended: starting a detail load never changes latestSearchToken and
\* leaves every search call as it is; a page change never changes
\* latestDetailsToken, so a detail load in flight stays current; runSearch
\* advances latestDetailsToken by one, so a detail load in flight becomes
\* stale.
IndependentStreams ==
  [][/\ StartsDetails
          => /\ state'.latestSearchToken = state.latestSearchToken
             /\ searches' = searches
     /\ StartsPageChange
          => /\ state'.latestDetailsToken = state.latestDetailsToken
             /\ details' = details
     /\ StartsRunSearch
          => /\ state'.latestDetailsToken = state.latestDetailsToken + 1
             /\ details.active => details.token # state'.latestDetailsToken]_vars

\* a detail load and a page change are in flight together, both current
IndependentStreamsWitness ==
  /\ details.active
  /\ details.token = state.latestDetailsToken
  /\ Len(searches) = 2
  /\ searches[2].pc = "page"
  /\ searches[2].page = 2
  /\ searches[2].token = state.latestSearchToken

(***************************************************************************)
(* Claims about publishing the visible results to the host                 *)
(***************************************************************************)
\* in this step call s, still current, calls syncSearchResultsToModelContext
SyncCalled(s) ==
  /\ searches[s].pc = "hydrating"
  /\ searches'[s].pc \in {"publishing", "done"}
  /\ searches[s].token = state.latestSearchToken
  /\ state'.results # <<>>

Delivered(r) == {i \in 1..Len(r.attempts) : r.attempts[i].result = "ok"}

Rank(attempt) ==
  CHOOSE k \in 1..Len(Strategies) : Strategies[k] = attempt.strategy

\* C12: a publish whose payload has the signature that is stored (the
\* payload is unchanged since the publish that returned it) makes no host
\* call and returns the stored signature; a publish that delivers makes
\* exactly one successful host call and its signature is the one stored.
IdempotentPublish ==
  /\ [][\A s \in Calls :
          (SyncCalled(s) /\ Signature(state') = state.lastResultsContextSignature)
            => /\ searches'[s].attempts = <<>>
               /\ searches'[s].pc = "done"
               /\ state'.lastResultsContextSignature =
                    state.lastResultsContextSignature]_vars
  /\ [](\A s \in Calls :
          /\ Cardinality(Delivered(searches[s])) <= 1
          /\ (s = Len(searches) /\ Delivered(searches[s]) # {})
               => state.lastResultsContextSignature = searches[s].signature)

\* the second of two searches showing the same page of the same query
\* returned without a host call, the signature of the first being stored
IdempotentPublishWitness ==
  /\ Len(searches) = 2
  /\ searches[2].pc = "done"
  /\ searches[2].attempts = <<>>
  /\ state.results # <<>>
  /\ state.lastResultsContextSignature # NullSignature
  /\ state.lastResultsContextSignature = Signature(state)
  /\ state.lastResultsContextSignature = searches[2].signature

\* C13: the strategies are tried in the order setWidgetState, content +
\* structuredContent, content only, structuredContent only, starting with
\* one of the first two; each is tried only after the one before it failed,
\* none after a success, and the call returns only after a success or after
\* the last strategy failed.
OrderedFallback ==
  \A s \in Calls :
    LET r == searches[s]
        a == r.attempts
        n == Len(a)
    IN /\ \A i \in 1..n :
            /\ i < n => a[i].result = "failed"
            /\ i > 1 => Rank(a[i]) = Rank(a[i - 1]) + 1
            /\ i = 1 => Rank(a[i]) \in {1, 2}
       /\ r.pc = "publishing" => (n > 0 /\ a[n].result = "pending")
       /\ r.pc = "done" =>
            \/ n = 0
            \/ a[n].result = "ok"
            \/ a[n].result = "failed" /\ Rank(a[n]) = Len(Strategies)

\* setWidgetState threw, two payload shapes were rejected, the last delivered
OrderedFallbackWitness ==
  \E s \in Calls :
    /\ searches[s].pc = "done"
    /\ searches[s].attempts =
         <<Attempt(1, "failed"), Attempt(2, "failed"), Attempt(3, "failed"),
           Attempt(4, "ok")>>
    /\ state.lastResultsContextSignature = searches[s].signature

\* in this step the last strategy of call s fails
Exhausted(s) ==
  /\ searches[s].pc = "publishing"
  /\ searches'[s].pc = "done"
  /\ Delivered(searches'[s]) = {}

\* C14: when the host has rejected every strategy the stored signature is
\* left as it was, and the search, not superseded, ends with its cards
\* shown, the non-error status of a loaded page, and the busy flag cleared.
FallbackExhaustion ==
  [][\A s \in Calls :
       Exhausted(s)
         => /\ state'.lastResultsContextSignature =
                 state.lastResultsContextSignature
            /\ searches[s].token = state.latestSearchToken
                 => /\ state'.results = Compact(searches[s].ordered)
                    /\ state'.results # <<>>
                    /\ state'.status = LoadedStatus(searches[s].failedCount)
                    /\ ~state'.status.isError
                    /\ ~state'.isResultsLoading
                    /\ ~state'.isBusy]_vars

\* all four strategies failed; the cards are shown and nothing is stored
FallbackExhaustionWitness ==
  \E s \in Calls :
    /\ searches[s].pc = "done"
    /\ searches[s].attempts = [k \in 1..Len(Strategies) |-> Attempt(k, "failed")]
    /\ state.results # <<>>
    /\ ~state.status.isError
    /\ ~state.isBusy
    /\ state.lastResultsContextSignature # searches[s].signature

(***************************************************************************)
(* Claims about the outcome of a client call                               *)
(***************************************************************************)
\* the errors the client has thrown, each with its tool execution
Thrown ==
  UNION {{<<i, k>> : k \in 1..Len(invocations[i].thrown)} :
           i \in 1..Len(invocations)}

ThrownEntry(t) == invocations[t[1]].thrown[t[2]]

\* the class of the spec's CallOutcome an error thrown by the client is in
Classify(error) ==
  IF error.name # "MetMuseumApiError" THEN "unclassified"
  ELSE IF error.message[1] = "taking too long" THEN "Timeout"
  ELSE IF error.message[1] = "unreachable" THEN "Unreachable"
  ELSE IF error.message[1] = "unexpected response" THEN "ShapeMismatch"
  ELSE IF error.status # 0 THEN "HttpStatus"
  ELSE "unclassified"

\* C15: a client call whose timeout expires before it completes ends with
\* the user-friendly 'taking too long' MetMuseumApiError, and is not left
\* waiting for the response or the body.
TimeoutClassification ==
  /\ \A t \in Thrown :
       ThrownEntry(t).aborted
         => /\ Classify(ThrownEntry(t).error) = "Timeout"
            /\ ThrownEntry(t).error.isUserFriendly
  /\ \A i \in 1..Len(invocations) :
       invocations[i].aborted => invocations[i].pc \in {"slot", "done"}

\* C16: every error the client throws is one of Timeout, Unreachable,
\* HttpStatus(code) and ShapeMismatch.
ClosedFailureTaxonomy ==
  \A t \in Thrown :
    Classify(ThrownEntry(t).error)
      \in {"Timeout", "Unreachable", "HttpStatus", "ShapeMismatch"}

Contains(text, message) ==
  \E i \in 1..Len(text) :
    /\ i + Len(message) - 1 <= Len(text)
    /\ SubSeq(text, i, i + Len(message) - 1) = message

\* C17: when the body of a departments, search or object response fails
\* its schema, the client throws the fixed 'unexpected response' error of
\* the endpoint, marked user-friendly, and neither its message nor the text
\* of the tool result holds any of the validation issues.
ShapeMismatchGeneric ==
  \A i \in 1..Len(invocations) :
    LET inv == invocations[i]
    IN (inv.pc = "done" /\ inv.body = "mismatch"
          /\ inv.method # "getImageAsBase64")
         => LET error == inv.thrown[Len(inv.thrown)].error
            IN /\ inv.thrown # <<>>
               /\ error = MetMuseumApiError(
                            <<"unexpected response", EndpointName(inv.method)>>,
                            0, TRUE)
               /\ Classify(error) = "ShapeMismatch"
               /\ inv.result.isError
               /\ Contains(inv.result.text, error.message)
               /\ \A k \in 1..Len(ValidationIssues) :
                    ~Contains(inv.result.text, <<ValidationIssues[k]>>)

\* list-departments met a body of another shape
ShapeMismatchWitness ==
  \E i \in 1..Len(invocations) :
    /\ invocations[i].pc = "done"
    /\ invocations[i].tool = "list-departments"
    /\ invocations[i].body = "mismatch"
    /\ invocations[i].result =
         [isError |-> TRUE,
          text |-> <<"Error listing departments:", "MetMuseumApiError",
                     "unexpected response", "departments">>]

\* C18: every failure that reaches get-museum-object or
\* search-museum-objects is a MetMuseumApiError, which carries
\* isUserFriendly, and when it is not user-friendly the text of the tool
\* result does not hold its message.
NoInternalLeak ==
  \A i \in 1..Len(invocations) :
    LET inv == invocations[i]
    IN (inv.pc = "done" /\ inv.result.isError
          /\ inv.tool \in {"get-museum-object", "search-museum-objects"})
         => LET error == inv.thrown[Len(inv.thrown)].error
            IN /\ error.name = "MetMuseumApiError"
               /\ ~error.isUserFriendly
                    => ~Contains(inv.result.text, error.message)

(***************************************************************************)
(* Claims about the hydration of a page                                    *)
(***************************************************************************)
\* the workers of call r whose get-museum-object call is in flight
InFlight(r) == {w \in DOMAIN r.workers : r.workers[w] # 0}

\* C19: at every moment of a hydration at most 4 get-museum-object calls
\* are in flight, and at most as many as the page has identifiers; the
\* calls in flight are for different identifiers, none fetched before.
BoundedParallelism ==
  \A s \in Calls :
    LET r == searches[s]
    IN /\ Cardinality(InFlight(r)) <= Concurrency
       /\ Cardinality(InFlight(r)) <= Len(r.ids)
       /\ \A v, w \in InFlight(r) : r.workers[v] = r.workers[w] => v = w
       /\ \A w \in InFlight(r) : r.outcome[r.workers[w]] = ""

\* five identifiers: four calls in flight and the fifth identifier queued
BoundedParallelismWitness ==
  \E s \in Calls :
    /\ Len(searches[s].ids) = Concurrency + 1
    /\ Cardinality(InFlight(searches[s])) = Concurrency
    /\ searches[s].queue = Concurrency + 1

\* in this step the hydration of call s, still current, returns
HydrationReturns(s) ==
  /\ searches[s].pc = "hydrating"
  /\ searches'[s].pc \in {"publishing", "done"}
  /\ searches[s].token = state.latestSearchToken

\* C20: when the hydration of a page that is not superseded returns: with
\* no card the status is the retry prompt, an error, and nothing is
\* published; with a card and failedCount > 0 the status is not an error
\* and tells the failed count; with failedCount = 0 no count is told.
BatchFailurePolicy ==
  [][\A s \in Calls :
       HydrationReturns(s)
         => LET r == searches'[s]
                cards == Compact(r.ordered)
            IN /\ state'.results = cards
               /\ cards = <<>>
                    => /\ state'.status = Status("previewsFailed", TRUE)
                       /\ r.pc = "done"
                       /\ r.attempts = <<>>
                       /\ state'.lastResultsContextSignature =
                            state.lastResultsContextSignature
               /\ (cards # <<>> /\ r.failedCount > 0)
                    => /\ ~state'.status.isError
                       /\ state'.status.kind = "loadedSomeFailed"
                       /\ state'.status.failed = r.failedCount
               /\ r.failedCount = 0
                    => /\ state'.status.failed = 0
                       /\ state'.status.kind # "loadedSomeFailed"
                       /\ cards # <<>> => state'.status = Status("loaded", FALSE)]_vars

\* three identifiers, two failed: one card and a note telling 2
BatchFailurePolicyWitness ==
  \E s \in Calls :
    /\ Returns(searches[s])
    /\ Len(searches[s].ids) = 3
    /\ searches[s].failedCount = 2
    /\ Len(state.results) = 1
    /\ state.status = [kind |-> "loadedSomeFailed", isError |-> FALSE, failed |-> 2]

(***************************************************************************)
(* Claims about the pagination of search-museum-objects                    *)
(***************************************************************************)
\* pages 1..n of the request's answer, one after the other
RECURSIVE PagesUpTo(_)
PagesUpTo(n) ==
  IF n = 0 THEN <<>>
  ELSE PagesUpTo(n - 1)
         \o Paginate(paging.total, paging.ids, n, paging.pageSize).objectIDs

\* C22: for a non-empty result totalPages is the least n >= 1 with
\* n * pageSize >= total, page is the requested page or totalPages if that
\* is less, objectIDs are the at most pageSize ids of the full list from
\* offset (page - 1) * pageSize on; and when total is the number of ids the
\* pages 1..totalPages one after the other are the full list.
ServerPagination ==
  (paging.result # <<>> /\ paging.total # 0)
    => LET r == paging.result[1]
           offset == (r.page - 1) * paging.pageSize
       IN /\ r.totalPages >= 1
          /\ r.totalPages * paging.pageSize >= paging.total
          /\ r.totalPages > 1 => (r.totalPages - 1) * paging.pageSize < paging.total
          /\ r.page = IF paging.page <= r.totalPages THEN paging.page
                                                     ELSE r.totalPages
          /\ Len(r.objectIDs) <= paging.pageSize
          /\ Len(r.objectIDs) =
               Max(0, Min(paging.pageSize, Len(paging.ids) - offset))
          /\ \A k \in 1..Len(r.objectIDs) : r.objectIDs[k] = paging.ids[offset + k]
          /\ paging.total = Len(paging.ids)
               => PagesUpTo(r.totalPages) = paging.ids

\* five ids in pages of two: the third page, asked for as page 4, is the
\* last id
ServerPaginationWitness ==
  /\ paging.ids = <<5, 3, 9, 2, 7>>
  /\ paging.total = 5
  /\ paging.pageSize = 2
  /\ paging.page = 4
  /\ paging.result =
       <<[total |-> 5, page |-> 3, pageSize |-> 2, totalPages |-> 3,
          objectIDs |-> <<7>>]>>

(***************************************************************************)
(* Claims about superseded hydrations                                      *)
(***************************************************************************)
\* call s is hydrating and its token is no longer the latest
StaleHydration(s) ==
  /\ searches[s].pc = "hydrating"
  /\ searches[s].token # state.latestSearchToken

\* C23: a worker whose fetch returns when its token is no longer the
\* latest writes no card into the slot array (the check after the fetch).
WorkerChecksAfterFetch ==
  [][\A s \in Calls :
       StaleHydration(s) => searches'[s].ordered = searches[s].ordered]_vars

\* C24: once latestSearchToken has advanced past a call's token, none of
\* its workers starts another get-museum-object call: each worker is idle
\* or still waiting for the call it had made, and the identifiers still
\* queued are skipped.
SupersededWorkInert ==
  [][\A s \in Calls :
       searches[s].token # state.latestSearchToken =>
         /\ \A w \in Workers :
              searches'[s].workers[w] \in {0, searches[s].workers[w]}
         /\ \A i \in 1..Len(searches[s].outcome) :
              (searches[s].outcome[i] = "" /\ searches'[s].outcome[i] # "")
                => \E w \in Workers : searches[s].workers[w] = i]_vars

\* a superseded hydration has returned with an identifier that was queued
\* when the newer search started and was never fetched
SupersededWorkWitness ==
  \E s \in Calls :
    /\ searches[s].pc = "done"
    /\ searches[s].supersededIn = "hydrating"
    /\ searches[s].token # state.latestSearchToken
    /\ \E i, j \in 1..Len(searches[s].outcome) :
         /\ searches[s].outcome[i] # ""
         /\ searches[s].outcome[j] = ""
         /\ searches[s].queue > Len(searches[s].ids)

(***************************************************************************)
(* Claims about the order of the RateLimiter's grants                      *)
(***************************************************************************)
\* C25: slots are granted in the order acquireSlot was called: a call whose
\* waitIfNeeded body has started (granted, or suspended on its timer) has
\* every earlier call granted, so no later caller overtakes an earlier one,
\* also while the earlier one is suspended.
FifoGranting ==
  \A c \in 1..nCalls :
    pending[c] # "chained" => \A d \in 1..(c - 1) : pending[d] = "resolved"

\* a caller is suspended until the window resets, after earlier callers
\* were granted and with later callers queued behind it
FifoGrantingWitness ==
  \E c \in Sleeping :
    /\ Resolved = 1..(c - 1)
    /\ c > MaxRequestsPerSecond
    /\ c < nCalls

(***************************************************************************)
(* Claims about the timeout of a client call                               *)
(***************************************************************************)
\* C26: the timeout of a client call runs only from the moment the call is
\* issued: it does not expire while the call waits for its slot, and no
\* call ends as Timeout at the await of the slot, before a request was made.
TimeoutCoversIssuedCall ==
  /\ \A i \in 1..Len(invocations) :
       invocations[i].pc = "slot" => ~invocations[i].aborted
  /\ \A t \in Thrown :
       Classify(ThrownEntry(t).error) = "Timeout" => ThrownEntry(t).at # "slot"

(***************************************************************************)
(* Claims about the termination of hydration                               *)
(***************************************************************************)
Hydrating(s) == s \in Calls /\ searches[s].pc = "hydrating"

\* C27: when every get-museum-object call settles, each hydrateObjects call
\* returns, whether or not a newer search has superseded it: whenever some
\* call is hydrating, a state follows in which none is.
HydrationTerminates ==
  (\E s \in Calls : Hydrating(s)) ~> (\A s \in Calls : ~Hydrating(s))

\* a hydration of more identifiers than workers has returned after it was
\* superseded with calls in flight, some of which were rejected
HydrationTerminatesWitness ==
  \E s \in Calls :
    /\ searches[s].pc = "done"
    /\ searches[s].supersededIn = "hydrating"
    /\ Len(searches[s].ids) > Concurrency
    /\ searches[s].failedCount > 0
    /\ searches[s].lastSettled # 0

(***************************************************************************)
(* Claims about a search started while a detail load is in flight          *)
(***************************************************************************)
StaleDetails == details.active /\ details.token < state.latestDetailsToken

\* C28: runSearch makes the detail load in flight stale; a stale detail
\* load stays stale while it is in flight; and when its response arrives it
\* sets neither the selected object nor the view mode.
SearchInvalidatesDetails ==
  [][/\ (StartsRunSearch /\ details.active)
          => (details' = details /\ details.token < state'.latestDetailsToken)
     /\ (StaleDetails /\ details'.active)
          => (details' = details /\ details.token < state'.latestDetailsToken)
     /\ (StaleDetails /\ ~details'.active)
          => /\ state'.selectedObject = state.selectedObject
             /\ state'.viewMode = state.viewMode]_vars

\* the response of a detail load arrived after a search had started, and
\* was discarded: the results view is shown and no object is selected
SearchInvalidatesDetailsWitness ==
  /\ details.outcome = "discarded"
  /\ ~state.isDetailsLoading
  /\ state.selectedObject = NullObject
  /\ state.viewMode = "results"
  /\ searches # <<>>
  /\ searches[Len(searches)].page = 1
  /\ searches[Len(searches)].pc # "done"

Fetching(r, i) == {w \in Workers : r.workers[w] = i}

\* the call for position i of call r has settled
Fetched(r, i) == i \in DOMAIN r.outcome /\ r.outcome[i] # ""

\* C30: within one hydrateObjects call a position is taken from the queue
\* by one worker and once: a worker starts a call only for a position that
\* was still queued and has no call made, a position that has been fetched
\* is never fetched again, and a hydration that was never superseded has
\* returned with every position fetched.
SingleClaimPerIdentifier ==
  /\ [][\A s \in Calls : \A i \in 1..Len(searches'[s].ids) :
          LET r == searches[s]
              r2 == searches'[s]
          IN /\ r2.queue >= r.queue
             /\ Cardinality(Fetching(r2, i)) <= 1
             /\ ~(Fetching(r2, i) \subseteq Fetching(r, i))
                  => (i >= r.queue /\ i < r2.queue /\ ~Fetched(r, i))
             /\ Fetched(r, i)
                  => (r2.outcome[i] = r.outcome[i] /\ Fetching(r2, i) = {})
             /\ (Fetched(r2, i) /\ ~Fetched(r, i))
                  => (Fetching(r, i) # {} /\ Fetching(r2, i) = {})]_vars
  /\ [](\A s \in Calls :
          (searches[s].pc \in {"publishing", "done"}
             /\ searches[s].supersededIn = "")
            => \A i \in 1..Len(searches[s].ids) : Fetched(searches[s], i))

\* a hydration of more positions than workers, never superseded, has
\* returned: a worker took a second position after its first call settled
SingleClaimWitness ==
  \E s \in Calls :
    /\ searches[s].pc = "done"
    /\ searches[s].supersededIn = ""
    /\ Len(searches[s].ids) > Concurrency
    /\ searches[s].queue = Len(searches[s].ids) + 1
    /\ \A i \in 1..Len(searches[s].ids) : Fetched(searches[s], i)

(***************************************************************************)
(* Claims about the launch of the explorer                                 *)
(***************************************************************************)
\* C21: when the explorer has been launched with a non-empty q and
\* connection and department loading have succeeded, then eventually
\* maybeRunPendingLaunchSearch has started a search for that launch: a
\* search for the launch's signature whose request is the launch's q.
LaunchAutoSearch ==
  \A q \in Queries \ {""} :
    (state.launch = q /\ state.isInitialized /\ state.departmentsLoaded)
      ~> (\E s \in Calls :
            searches[s].launched = <<q>> /\ searches[s].request = q)

(***************************************************************************)
(* Claims about the accounting of a hydration                              *)
(***************************************************************************)
\* C31: a hydration that was never superseded returns with every
\* identifier either as a card or in the failure count: the number of cards
\* plus failedCount is the number of identifiers.
FullAccounting ==
  \A s \in Calls :
    (searches[s].pc \in {"publishing", "done"}
       /\ searches[s].supersededIn = ""
       /\ searches[s].ids # <<>>)
      => Len(Compact(searches[s].ordered)) + searches[s].failedCount
           = Len(searches[s].ids)

(***************************************************************************)
(* Claims about the busy and loading flags                                 *)
(***************************************************************************)
SearchInFlight == \E s \in Calls : searches[s].pc # "done"

\* C32: whenever no loadSearchPage call is in flight, isBusy and
\* isResultsLoading are false; and when every call settles, a busy explorer
\* eventually has its search controls enabled again with nothing loading.
FlagsReleased ==
  /\ [](~SearchInFlight => (~state.isBusy /\ ~state.isResultsLoading))
  /\ state.isBusy ~> (~state.isBusy /\ ~state.isResultsLoading)

\* two overlapping searches have returned, the first one superseded before
\* it returned, and the controls are enabled
FlagsReleasedWitness ==
  /\ Len(searches) = 2
  /\ ~SearchInFlight
  /\ searches[1].supersededIn # ""
  /\ ~state.isBusy
  /\ ~state.isResultsLoading

(***************************************************************************)
(* Claims about detail loads                                               *)
(***************************************************************************)
\* C33: at most one detail load is in flight: while one is, no click
\* issues a token or starts another load, and isDetailsLoading is true
\* exactly while a load is in flight, so it is false again whenever the
\* load has settled, whatever the outcome.
OneDetailLoad ==
  /\ [](details.active <=> state.isDetailsLoading)
  /\ [][details.active
         => /\ details'.token = details.token
            /\ details'.objectId = details.objectId
            /\ (details'.active
                 \/ (~state'.isDetailsLoading /\ details'.outcome # ""))]_vars

\* a second detail load, started after the first one had settled, has
\* failed and released the flag
OneDetailLoadWitness ==
  /\ ~details.active
  /\ ~state.isDetailsLoading
  /\ details.token = MaxDetailLoads
  /\ details.outcome = "failed"

\* C34: when a detail load that a new search has superseded fails, no
\* error status is shown: the status is left as it was.
StaleDetailFailureSilent ==
  [][(StaleDetails /\ ~details'.active) => state'.status = state.status]_vars

(***************************************************************************)
(* Claims about the results context                                        *)
(***************************************************************************)
\* C35: two results payloads with the same publish signature are the
\* same in everything delivered to the host: the summary text and every
\* field of the structured payload.
SignatureFaithful ==
  (/\ payloads.built
   /\ payloads.signature[1] # NullSignature
   /\ payloads.signature[1] = payloads.signature[2])
    => /\ payloads.text[1] = payloads.text[2]
       /\ payloads.structuredContent[1] = payloads.structuredContent[2]

\* the updateModelContext call of loadSearchPage call s has been accepted
Accepted(s) ==
  /\ s \in 1..Len(searches)
  /\ searches[s].pc = "done"
  /\ searches[s].attempts # <<>>
  /\ searches[s].attempts[Len(searches[s].attempts)].result = "ok"

\* C36: lastResultsContextSignature is the signature of the payload the
\* host accepted last: the step in which a delivery is accepted stores
\* the signature of the delivered payload, and no other step changes the
\* stored signature, also when the publishes of overlapping searches
\* settle out of order.
StoredSignatureTracksHost ==
  [][/\ \A s \in 1..Len(searches) :
          PublishSettles(s, TRUE)
            => state'.lastResultsContextSignature = searches[s].signature
     /\ state'.lastResultsContextSignature # state.lastResultsContextSignature
          => \E s \in 1..Len(searches) : PublishSettles(s, TRUE)]_vars

\* two overlapping searches have both been delivered, the newer one first:
\* the stored signature is that of the older one, accepted last
StoredSignatureWitness ==
  /\ Accepted(1)
  /\ Accepted(2)
  /\ searches[1].signature # searches[2].signature
  /\ state.lastResultsContextSignature = searches[1].signature
  /\ state.latestSearchToken = searches[2].token

(***************************************************************************)
(* Claims about adding an object to the conversation                       *)
(***************************************************************************)
\* an addSelectedObjectToContext call returns in this step
AddReturns == adding.pc \notin {"idle", "done"} /\ adding'.pc = "done"

\* C37: an object is marked as added only if the host has accepted a
\* delivery for it (an updateModelContext call or the follow-up message);
\* a call none of whose deliveries was accepted returns with the object
\* not marked, an error status shown and isAddingToContext false.
AddedImpliesDelivery ==
  /\ [](state.addedContextObjectIds \subseteq adding.accepted)
  /\ [][AddReturns
         => /\ ~state'.isAddingToContext
            /\ ~adding'.delivered
                 => /\ adding.objectId \notin state'.addedContextObjectIds
                    /\ state'.status.isError]_vars

\* one call has marked its object through the follow-up message alone,
\* and a later call for another object has had every delivery rejected
AddedImpliesDeliveryWitness ==
  /\ adding.pc = "done"
  /\ adding.calls = MaxAdds
  /\ ~adding.delivered
  /\ state.addedContextObjectIds # {}
  /\ adding.objectId \notin state.addedContextObjectIds
  /\ state.status.isError
  /\ ~state.isAddingToContext

(***************************************************************************)
(* Claims about the launch search                                          *)
(***************************************************************************)
\* this step starts the search of a launch: maybeRunPendingLaunchSearch
\* has called runSearch, which has made a loadSearchPage call
StartsLaunchSearch ==
  /\ Len(searches') = Len(searches) + 1
  /\ searches'[Len(searches')].launched # NullSignature

\* the call holding the latest token returns in this step: its finally has
\* called setBusy(false) before it calls maybeRunPendingLaunchSearch
CurrentCallReturns ==
  \E s \in 1..Len(searches) :
    /\ searches[s].token = state.latestSearchToken
    /\ searches[s].pc # "done"
    /\ searches'[s].pc = "done"

\* the loadSearchPage calls made for the launch signature of q
LaunchSearches(q) == {s \in 1..Len(searches) : searches[s].launched = <<q>>}

\* C38: maybeRunPendingLaunchSearch starts a search only when the app is
\* initialised with the departments loaded, no search is busy or loading,
\* and the pending launch signature differs from the one run last, which it
\* then becomes; so no launch signature is run twice, whichever of
\* ontoolinput and ontoolresult comes first, before or after initialisation.
LaunchSearchGuard ==
  /\ [][StartsLaunchSearch
         => /\ state'.isInitialized /\ state'.departmentsLoaded
            /\ (~state.isBusy /\ ~state.isResultsLoading) \/ CurrentCallReturns
            /\ searches'[Len(searches')].launched # state.lastLaunchSearchSignature
            /\ searches'[Len(searches')].launched = state'.lastLaunchSearchSignature
            /\ state'.pendingLaunchSearchSignature = NullSignature]_vars
  /\ [](\A q \in Queries : Cardinality(LaunchSearches(q)) <= 1)

\* both ontoolinput and ontoolresult have delivered the launch, the second
\* after initialisation, and its search has been run once and has returned
LaunchSearchGuardWitness ==
  /\ startup.toolInput
  /\ startup.toolResult
  /\ state.isInitialized
  /\ state.launch = "monet"
  /\ state.pendingLaunchSearchSignature = NullSignature
  /\ state.lastLaunchSearchSignature = <<"monet">>
  /\ ~state.isBusy
  /\ Cardinality(LaunchSearches("monet")) = 1
  /\ \A s \in LaunchSearches("monet") : searches[s].pc = "done"

====
